---------------------------- MODULE Spec2Model ----------------------------
(***************************************************************************)
(* A model of pdf-sku-label-tool (src/process_pdf.py): the SKU whitelist   *)
(* helpers, the text-based and the coordinate-based SKU extractors and the *)
(* table layout of create_sku_table.                                       *)
(*                                                                         *)
(* Python strings are TLA+ strings; TLC evaluates Len, \o and SubSeq on    *)
(* them, and every string function of the source is built from those.      *)
(***************************************************************************)
EXTENDS Integers, Sequences, FiniteSets, TLC

VARIABLES
    SKU_NAME_LIST,   \* the whitelist loaded at import (process_pdf.py:30,59)
    nrm,             \* a call of the whitelist helpers: its argument and what they returned
    ext,             \* a call of extract_sku_from_packing_slip: its text and its locals
    pg,              \* a call of extract_sku_from_page: its Words and its locals
    tbl,             \* a call of create_sku_table: its Records, the page width and its locals
    pdf              \* a call of process_pdf: the pages of its input and its locals

vars == <<SKU_NAME_LIST, nrm, ext, pg, tbl, pdf>>

-----------------------------------------------------------------------------
(***************************************************************************)
(* Python's str operations.                                                *)
(***************************************************************************)

\* s[a-1:b]: a slice, clipped to the string as Python clips it
Sub(s, a, b) ==
    IF a > b \/ a > Len(s) \/ b < 1 THEN ""
    ELSE SubSeq(s, IF a < 1 THEN 1 ELSE a, IF b > Len(s) THEN Len(s) ELSE b)

Char(s, i) == Sub(s, i, i)

\* t in s
Contains(s, t) ==
    \E i \in 1..(Len(s) - Len(t) + 1) : Sub(s, i, i + Len(t) - 1) = t

\* s.find(t) + 1, for t in s
FirstIndex(s, t) ==
    CHOOSE i \in 1..(Len(s) - Len(t) + 1) :
        /\ Sub(s, i, i + Len(t) - 1) = t
        /\ \A j \in 1..(i - 1) : Sub(s, j, j + Len(t) - 1) # t

StartsWith(s, t) == Len(t) <= Len(s) /\ Sub(s, 1, Len(t)) = t

EndsWith(s, t) == Len(t) <= Len(s) /\ Sub(s, Len(s) - Len(t) + 1, Len(s)) = t

UpperChars == "ABCDEFGHIJKLMNOPQRSTUVWXYZ"
LowerChars == "abcdefghijklmnopqrstuvwxyz"
DigitChars == "0123456789"

UpperSet == { SubSeq(UpperChars, i, i) : i \in 1..26 }
LowerSet == { SubSeq(LowerChars, i, i) : i \in 1..26 }
DigitSet == { SubSeq(DigitChars, i, i) : i \in 1..10 }

\* str.lower() and str.upper() of one character, as tables
LowerMap == [c \in UpperSet |-> LET i == CHOOSE j \in 1..26 : SubSeq(UpperChars, j, j) = c
                                IN  SubSeq(LowerChars, i, i)]
UpperMap == [c \in LowerSet |-> LET i == CHOOSE j \in 1..26 : SubSeq(LowerChars, j, j) = c
                                IN  SubSeq(UpperChars, i, i)]
DigitMap == [c \in DigitSet |-> (CHOOSE j \in 1..10 : SubSeq(DigitChars, j, j) = c) - 1]

IsUpperChar(c) == c \in UpperSet
IsLowerChar(c) == c \in LowerSet
IsDigitChar(c) == c \in DigitSet
IsAlphaChar(c) == IsUpperChar(c) \/ IsLowerChar(c)
\* the characters str.strip() and str.split() take as whitespace, of the
\* characters below 128: space, tab, line feed, vertical tab, form feed,
\* carriage return and the separators 28 to 31 (written here as themselves)
IsSpaceChar(c) ==
    c \in {" ", "\t", "\n", "\r", "\f", "", "", "", "", ""}

LowerChar(c) == IF c \in UpperSet THEN LowerMap[c] ELSE c
UpperChar(c) == IF c \in LowerSet THEN UpperMap[c] ELSE c

RECURSIVE Lower(_)
Lower(s) == IF s = "" THEN "" ELSE LowerChar(Char(s, 1)) \o Lower(Sub(s, 2, Len(s)))

RECURSIVE Upper(_)
Upper(s) == IF s = "" THEN "" ELSE UpperChar(Char(s, 1)) \o Upper(Sub(s, 2, Len(s)))

\* "".join(ch for ch in s if ch.isalpha())
RECURSIVE LettersOf(_)
LettersOf(s) ==
    IF s = "" THEN ""
    ELSE (IF IsAlphaChar(Char(s, 1)) THEN Char(s, 1) ELSE "") \o LettersOf(Sub(s, 2, Len(s)))

\* "".join(ch for ch in s if ch.isdigit())
RECURSIVE DigitsOf(_)
DigitsOf(s) ==
    IF s = "" THEN ""
    ELSE (IF IsDigitChar(Char(s, 1)) THEN Char(s, 1) ELSE "") \o DigitsOf(Sub(s, 2, Len(s)))

\* s.isdigit()
IsDigitStr(s) == s # "" /\ \A i \in 1..Len(s) : IsDigitChar(Char(s, i))

\* s.isalnum()
IsAlnumStr(s) ==
    s # "" /\ \A i \in 1..Len(s) : IsDigitChar(Char(s, i)) \/ IsAlphaChar(Char(s, i))

\* s.strip()
RECURSIVE LStrip(_)
LStrip(s) == IF s # "" /\ IsSpaceChar(Char(s, 1)) THEN LStrip(Sub(s, 2, Len(s))) ELSE s

RECURSIVE RStrip(_)
RStrip(s) ==
    IF s # "" /\ IsSpaceChar(Char(s, Len(s))) THEN RStrip(Sub(s, 1, Len(s) - 1)) ELSE s

Strip(s) == LStrip(RStrip(s))

\* s.split(sep) for a one-character sep: the pieces between separators, empty ones kept
RECURSIVE SplitOn(_, _)
SplitOn(s, sep) ==
    IF ~Contains(s, sep) THEN <<s>>
    ELSE LET k == FirstIndex(s, sep)
         IN  <<Sub(s, 1, k - 1)>> \o SplitOn(Sub(s, k + 1, Len(s)), sep)

\* s.split(sep, 1)
SplitOnce(s, sep) ==
    IF ~Contains(s, sep) THEN <<s>>
    ELSE LET k == FirstIndex(s, sep)
         IN  <<Sub(s, 1, k - 1), Sub(s, k + 1, Len(s))>>

\* the length of the run of non-space characters s starts with
RECURSIVE WordLen(_)
WordLen(s) ==
    IF s = "" \/ IsSpaceChar(Char(s, 1)) THEN 0 ELSE 1 + WordLen(Sub(s, 2, Len(s)))

\* s.split(): the maximal runs of non-space characters
RECURSIVE Split(_)
Split(s) ==
    LET t == LStrip(s)
        n == WordLen(t)
    IN  IF t = "" THEN <<>> ELSE <<Sub(t, 1, n)>> \o Split(Sub(t, n + 1, Len(t)))

\* sep.join(parts)
RECURSIVE Join(_, _)
Join(parts, sep) ==
    IF parts = <<>> THEN ""
    ELSE IF Len(parts) = 1 THEN parts[1]
    ELSE parts[1] \o sep \o Join(Tail(parts), sep)

\* [x for x in seq if x != ""]
RECURSIVE NonEmpty(_)
NonEmpty(seq) ==
    IF seq = <<>> THEN <<>>
    ELSE (IF seq[1] = "" THEN <<>> ELSE <<seq[1]>>) \o NonEmpty(Tail(seq))

\* x in seq
InSeq(x, seq) == \E i \in 1..Len(seq) : seq[i] = x

-----------------------------------------------------------------------------
(***************************************************************************)
(* The whitelist helpers.                                                  *)
(***************************************************************************)

\* _match_complex_candidate forgetting the digits of a part
MatchComplexNoDigits(raw, candidate) ==
    LET sku_lower == Lower(raw)
        split == SplitOnce(candidate, "(")
        base  == split[1]
        rest  == Sub(split[2], 1, Len(split[2]) - 1)
        parts == NonEmpty(SplitOn(rest, "+"))
    IN  IF ~Contains(candidate, "(") \/ ~EndsWith(candidate, ")") THEN FALSE
        ELSE IF base # "" /\ ~Contains(sku_lower, Lower(base)) THEN FALSE
        ELSE \A p \in 1..Len(parts) :
                LET key == Lower(Sub(LettersOf(parts[p]), 1, 3))
                IN  key = "" \/ Contains(sku_lower, key)

_match_complex_candidate(raw, candidate) ==
    LET sku_lower == Lower(raw)
        split == SplitOnce(candidate, "(")
        base  == split[1]
        rest  == Sub(split[2], 1, Len(split[2]) - 1)
        parts == NonEmpty(SplitOn(rest, "+"))
    IN  IF ~Contains(candidate, "(") \/ ~EndsWith(candidate, ")") THEN FALSE
        ELSE IF base # "" /\ ~Contains(sku_lower, Lower(base)) THEN FALSE
        ELSE \A p \in 1..Len(parts) :
                LET letters == LettersOf(parts[p])
                    digits  == DigitsOf(parts[p])
                    key     == Lower(Sub(letters, 1, 3))
                IN  /\ (letters # "" /\ key # "") => Contains(sku_lower, key)
                    /\ digits # "" => Contains(raw, digits)

\* the first loop of _normalize_sku_by_whitelist: names in raw, or raw in names
RECURSIVE SubstringCandidates(_, _)
SubstringCandidates(raw, names) ==
    IF names = <<>> THEN <<>>
    ELSE (IF Contains(raw, names[1]) \/ Contains(names[1], raw) THEN <<names[1]>> ELSE <<>>)
         \o SubstringCandidates(raw, Tail(names))

\* the second loop: the names not yet candidates that match as a composite
RECURSIVE ComplexCandidates(_, _, _)
ComplexCandidates(raw, names, candidates) ==
    IF names = <<>> THEN candidates
    ELSE ComplexCandidates(raw, Tail(names),
            IF ~InSeq(names[1], candidates) /\ _match_complex_candidate(raw, names[1])
            THEN Append(candidates, names[1]) ELSE candidates)

NormalizeCandidates(raw, names) ==
    ComplexCandidates(raw, names, SubstringCandidates(raw, names))

\* _normalize_sku_by_whitelist taking the first of several candidates
NormalizeFirstCandidate(raw, names) ==
    IF names = <<>> THEN raw
    ELSE IF InSeq(raw, names) THEN raw
    ELSE LET candidates == NormalizeCandidates(raw, names)
         IN  IF Len(candidates) >= 1 THEN candidates[1] ELSE raw

_normalize_sku_by_whitelist(raw, names) ==
    IF names = <<>> THEN raw
    ELSE IF InSeq(raw, names) THEN raw
    ELSE LET candidates == NormalizeCandidates(raw, names)
         IN  IF Len(candidates) = 1 THEN candidates[1] ELSE raw

-----------------------------------------------------------------------------
(***************************************************************************)
(* extract_sku_from_packing_slip: the text-based extractor.  A Record is   *)
(* the pair <<name, qty>>; None is <<>> and a value v that may be None is  *)
(* <<v>>.  Line indices are Python's (from 0).                              *)
(***************************************************************************)

\* the most digits int() converts (sys.get_int_max_str_digits()): of a string
\* with more digits, int() raises ValueError
int_max_str_digits == 4300

\* int(s) of a string of digits; "ValueError" when int(s) raises it
RECURSIVE DigitsToInt(_)
DigitsToInt(s) ==
    IF Len(s) > int_max_str_digits THEN "ValueError"
    ELSE IF s = "" THEN 0
    ELSE 10 * DigitsToInt(Sub(s, 1, Len(s) - 1)) + DigitMap[Char(s, Len(s))]

\* s with every occurrence of the character c removed: s.replace(c, "")
RECURSIVE RemoveChar(_, _)
RemoveChar(s, c) ==
    IF s = "" THEN ""
    ELSE (IF Char(s, 1) = c THEN "" ELSE Char(s, 1)) \o RemoveChar(Sub(s, 2, Len(s)), c)

\* whether int(part) succeeds: an optional sign, then digits that single
\* underscores may separate, at most int_max_str_digits digits
IsPyInt(part) ==
    LET body == IF Char(part, 1) \in {"+", "-"} THEN Sub(part, 2, Len(part)) ELSE part
    IN  /\ body # ""
        /\ \A j \in 1..Len(body) : IsDigitChar(Char(body, j)) \/ Char(body, j) = "_"
        /\ IsDigitChar(Char(body, 1))
        /\ IsDigitChar(Char(body, Len(body)))
        /\ ~Contains(body, "__")
        /\ Cardinality({ j \in 1..Len(body) : Char(body, j) # "_" }) <= int_max_str_digits

\* int(part); "ValueError" when int(part) raises it
PyInt(part) ==
    LET body == IF Char(part, 1) \in {"+", "-"} THEN Sub(part, 2, Len(part)) ELSE part
        n    == DigitsToInt(DigitsOf(body))
    IN  IF ~IsPyInt(part) THEN "ValueError"
        ELSE IF Char(part, 1) = "-" THEN 0 - n ELSE n

\* the index of the first part int() accepts, from index j on; 0 when none
RECURSIVE FirstIntFrom(_, _)
FirstIntFrom(parts, j) ==
    IF j > Len(parts) THEN 0
    ELSE IF IsPyInt(parts[j]) THEN j
    ELSE FirstIntFrom(parts, j + 1)

\* the digits s ends with
RECURSIVE TrailingDigits(_)
TrailingDigits(s) ==
    IF s = "" \/ ~IsDigitChar(Char(s, Len(s))) THEN ""
    ELSE TrailingDigits(Sub(s, 1, Len(s) - 1)) \o Char(s, Len(s))

\* the quantity re.search(re.escape(name) + r".*?(\d+)\s*$", line) finds in a
\* stripped line that contains name: the digits the line ends with, taken
\* after the first occurrence of name; 1 when there are none, and when int()
\* raises ValueError for them
WhitelistQty(line, name) ==
    LET after  == Sub(line, FirstIndex(line, name) + Len(name), Len(line))
        digits == TrailingDigits(after)
    IN  IF digits = "" \/ Len(digits) > int_max_str_digits THEN 1
        ELSE DigitsToInt(digits)

\* matched_in_line: the whitelist names that occur in the line, each with its quantity
RECURSIVE MatchedInLine(_, _)
MatchedInLine(line, names) ==
    IF names = <<>> THEN <<>>
    ELSE (IF Contains(line, names[1])
          THEN << <<names[1], WhitelistQty(line, names[1])>> >> ELSE <<>>)
         \o MatchedInLine(line, Tail(names))

\* any(keyword in part.lower() for keyword in keywords)
AnyKeyword(part, keywords) == \E kw \in keywords : Contains(Lower(part), kw)

ShortKeywords == {"for", "and", "the", "card", "chip"}
DescriptionKeywords ==
    {"sticker", "card", "pack", "sheet", "for", "and", "the", "chip", "key", "metro"}

\* the scan of the next line's parts from the line end: <<the part to append>>, or <<>>
RECURSIVE ContinuationPart(_, _)
ContinuationPart(next_parts, j) ==
    IF j = 0 THEN <<>>
    ELSE LET part == next_parts[j]
         IN  IF /\ 2 <= Len(part)
                /\ Len(part) <= 5
                /\ IsAlnumStr(RemoveChar(RemoveChar(part, "-"), "_"))
             THEN IF ~AnyKeyword(part, ShortKeywords) THEN <<part>>
                  ELSE ContinuationPart(next_parts, j - 1)
             ELSE IF AnyKeyword(part, DescriptionKeywords) THEN <<>>
             ELSE ContinuationPart(next_parts, j - 1)

\* re.sub(r'-+', '-', s)
RECURSIVE CollapseHyphens(_)
CollapseHyphens(s) ==
    IF s = "" THEN ""
    ELSE IF Char(s, 1) = "-" /\ Char(s, 2) = "-" THEN CollapseHyphens(Sub(s, 2, Len(s)))
    ELSE Char(s, 1) \o CollapseHyphens(Sub(s, 2, Len(s)))

\* s.strip('-')
RECURSIVE StripHyphens(_)
StripHyphens(s) ==
    IF s # "" /\ Char(s, 1) = "-" THEN StripHyphens(Sub(s, 2, Len(s)))
    ELSE IF s # "" /\ Char(s, Len(s)) = "-" THEN StripHyphens(Sub(s, 1, Len(s) - 1))
    ELSE s

\* the name assembled from the parts of a marker line
AssembleName(sku_parts) ==
    LET hyphenated == \A j \in 1..Len(sku_parts) :
                          Contains(sku_parts[j], "-") \/ IsAlnumStr(sku_parts[j])
        joined == IF hyphenated THEN Join(sku_parts, "-") ELSE Join(sku_parts, " ")
    IN  StripHyphens(CollapseHyphens(joined))

\* the index of the first part that contains "Ink-"
FirstMarkerPart(parts) == CHOOSE j \in 1..Len(parts) :
    /\ Contains(parts[j], "Ink-")
    /\ \A h \in 1..(j - 1) : ~Contains(parts[h], "Ink-")

\* 'SKU' in line.upper() and ('QTY' in line.upper() or 'QUANTITY' in line.upper())
IsHeaderLine(line) ==
    /\ Contains(Upper(line), "SKU")
    /\ Contains(Upper(line), "QTY") \/ Contains(Upper(line), "QUANTITY")

\* the state of the scan before its first line
ScanStart(text) ==
    [ text              |-> text,
      lines             |-> SplitOn(text, "\n"),
      i                 |-> 0,
      found_header      |-> FALSE,
      header_index      |-> <<>>,
      qty_total_index   |-> <<>>,
      current_sku_parts |-> <<>>,
      current_qty       |-> <<>>,
      skus              |-> <<>>,
      pc                |-> "scan",     \* scan, backfill, final, done
      region_text       |-> "",
      existing_names    |-> {},
      k                 |-> 0,          \* the whitelist name the backfill is at
      result            |-> <<>> ]

CurrentLine(st) == Strip(st.lines[st.i + 1])

\* a blank line: a pending name that has a quantity becomes a Record
BlankLineStep(st) ==
    IF st.current_sku_parts # <<>> /\ st.current_qty # <<>>
    THEN [st EXCEPT !.skus = Append(@, <<Join(st.current_sku_parts, " "), st.current_qty[1]>>),
                    !.current_sku_parts = <<>>,
                    !.current_qty = <<>>,
                    !.i = @ + 1]
    ELSE [st EXCEPT !.i = @ + 1]

\* a header line
HeaderLineStep(st) ==
    [st EXCEPT !.found_header = TRUE, !.header_index = <<st.i>>, !.i = @ + 1]

\* the first line with "QTY TOTAL" is remembered
MarkQtyTotal(st) ==
    IF Contains(Upper(CurrentLine(st)), "QTY TOTAL") /\ st.qty_total_index = <<>>
    THEN [st EXCEPT !.qty_total_index = <<st.i>>]
    ELSE st

\* a line with whitelist names in it: one Record for each
WhitelistLineStep(st, names) ==
    [st EXCEPT !.skus = @ \o MatchedInLine(CurrentLine(st), names), !.i = @ + 1]

\* a line with "Ink-" in it
MarkerLineStep(st) ==
    LET parts == Split(CurrentLine(st))
        sku_start_idx == FirstMarkerPart(parts)
        q == FirstIntFrom(parts, sku_start_idx)
        sku_parts == IF q = 0 THEN SubSeq(parts, sku_start_idx, Len(parts))
                     ELSE SubSeq(parts, sku_start_idx, q - 1)
        next_parts == IF st.i + 1 < Len(st.lines)
                      THEN Split(Strip(st.lines[st.i + 2])) ELSE <<>>
        with_next == sku_parts \o ContinuationPart(next_parts, Len(next_parts))
    IN  IF sku_parts = <<>> THEN [st EXCEPT !.i = @ + 1]
        ELSE IF q # 0
        THEN [st EXCEPT !.skus = Append(@, <<AssembleName(with_next), PyInt(parts[q])>>),
                        !.i = @ + 1]
        ELSE [st EXCEPT !.current_sku_parts = sku_parts, !.i = @ + 1]

\* a line without "Ink-": its first integer completes a pending name
PlainLineStep(st) ==
    LET parts == Split(CurrentLine(st))
        q == FirstIntFrom(parts, 1)
    IN  IF q # 0 /\ st.current_sku_parts # <<>>
        THEN [st EXCEPT !.skus = Append(@, <<Join(st.current_sku_parts, " "), PyInt(parts[q])>>),
                        !.current_sku_parts = <<>>,
                        !.current_qty = <<>>,
                        !.i = @ + 1]
        ELSE [st EXCEPT !.i = @ + 1]

\* LineKind with the lines before the header taken like the lines after it
LineKindUngated(st, names) ==
    LET line == CurrentLine(st)
    IN  IF line = "" THEN "blank"
        ELSE IF IsHeaderLine(line) THEN "header"
        ELSE IF MatchedInLine(line, names) # <<>> THEN "whitelist"
        ELSE IF Contains(line, "Ink-") THEN "marker"
        ELSE "plain"

\* the kind of the current line: which branch of the loop body takes it
LineKind(st, names) ==
    LET line == CurrentLine(st)
    IN  IF line = "" THEN "blank"
        ELSE IF IsHeaderLine(line) THEN "header"
        ELSE IF ~st.found_header THEN "before_header"
        ELSE IF MatchedInLine(line, names) # <<>> THEN "whitelist"
        ELSE IF Contains(line, "Ink-") THEN "marker"
        ELSE "plain"

\* one iteration of the loop over the lines
ScanStep(st, names) ==
    LET kind == LineKind(st, names)
    IN  IF kind = "blank" THEN BlankLineStep(st)
        ELSE IF kind = "header" THEN HeaderLineStep(st)
        ELSE IF kind = "before_header" THEN [MarkQtyTotal(st) EXCEPT !.i = @ + 1]
        ELSE IF kind = "whitelist" THEN WhitelistLineStep(MarkQtyTotal(st), names)
        ELSE IF kind = "marker" THEN MarkerLineStep(MarkQtyTotal(st))
        ELSE PlainLineStep(MarkQtyTotal(st))

\* after the loop: a pending name that has a quantity becomes a Record
EndOfLines(st) ==
    IF st.current_sku_parts # <<>> /\ st.current_qty # <<>>
    THEN [st EXCEPT !.skus = Append(@, <<Join(st.current_sku_parts, " "), st.current_qty[1]>>)]
    ELSE st

\* seq[a:b], Python's slice of a list (indices from 0, b excluded)
Slice(seq, a, b) ==
    LET hi == IF b > Len(seq) THEN Len(seq) ELSE b
    IN  IF a >= hi THEN <<>> ELSE [j \in 1..(hi - a) |-> seq[a + j]]

\* [f(x) for x in seq if f(x)] with f = strip
RECURSIVE StrippedNonEmpty(_)
StrippedNonEmpty(seq) ==
    IF seq = <<>> THEN <<>>
    ELSE (IF Strip(seq[1]) = "" THEN <<>> ELSE <<Strip(seq[1])>>)
         \o StrippedNonEmpty(Tail(seq))

\* the text of the lines after the header line and before the "Qty Total"
\* line (the end of the page when there is none), joined by spaces
RegionText(st) ==
    LET end_index == IF st.qty_total_index # <<>> THEN st.qty_total_index[1]
                     ELSE Len(st.lines)
    IN  Join(StrippedNonEmpty(Slice(st.lines, st.header_index[1] + 1, end_index)), " ")

\* a composite match that replaces no Record
WithoutReplacedKeepAll(skus, base, name) == skus

\* the Records other than those a composite match replaces
RECURSIVE WithoutReplaced(_, _, _)
WithoutReplaced(skus, base, name) ==
    IF skus = <<>> THEN <<>>
    ELSE (IF StartsWith(skus[1][1], base) /\ skus[1][1] # name THEN <<>> ELSE <<skus[1]>>)
         \o WithoutReplaced(Tail(skus), base, name)

\* the backfill of one whitelist name
BackfillName(skus, name, region_text, existing_names) ==
    LET split == SplitOnce(name, "(")
        base  == split[1]
        rest  == Sub(split[2], 1, Len(split[2]) - 1)
        parts == NonEmpty(SplitOn(rest, "+"))
    IN  IF name \in existing_names THEN skus
        ELSE IF Contains(region_text, name) THEN Append(skus, <<name, 1>>)
        ELSE IF /\ Contains(name, "(") /\ EndsWith(name, ")")
                /\ base # ""
                /\ Contains(region_text, base)
                /\ \A p \in 1..Len(parts) : Contains(region_text, parts[p])
        THEN Append(WithoutReplaced(skus, base, name), <<name, 1>>)
        ELSE skus

\* the end of the loop over the lines, and whether the backfill runs
FinishScanStep(st, names) ==
    LET e == EndOfLines(st)
    IN  IF names # <<>> /\ e.header_index # <<>>
        THEN [e EXCEPT !.pc = "backfill",
                       !.region_text = RegionText(e),
                       !.existing_names = { e.skus[j][1] : j \in 1..Len(e.skus) },
                       !.k = 1]
        ELSE [e EXCEPT !.pc = "final"]

\* one iteration of the loop over the whitelist
BackfillStep(st, names) ==
    [st EXCEPT !.skus = BackfillName(st.skus, names[st.k], st.region_text, st.existing_names),
               !.k = @ + 1,
               !.pc = IF st.k = Len(names) THEN "final" ELSE "backfill"]

\* ' '.join(sku.split())
CleanName(sku) == Join(Split(sku), " ")

\* MergeSeen keeping the last quantity of a name
MergeSeenOverwrite(seen, sku_clean, qty) ==
    IF \E j \in 1..Len(seen) : seen[j][1] = sku_clean
    THEN [j \in 1..Len(seen) |->
            IF seen[j][1] = sku_clean THEN <<sku_clean, qty>> ELSE seen[j]]
    ELSE Append(seen, <<sku_clean, qty>>)

\* seen[sku_clean] += qty, or seen[sku_clean] = qty for a new name; seen is
\* the dict as the list of its items, in insertion order
MergeSeen(seen, sku_clean, qty) ==
    IF \E j \in 1..Len(seen) : seen[j][1] = sku_clean
    THEN [j \in 1..Len(seen) |->
            IF seen[j][1] = sku_clean THEN <<sku_clean, seen[j][2] + qty>> ELSE seen[j]]
    ELSE Append(seen, <<sku_clean, qty>>)

\* the final pass: one Record for each cleaned name
RECURSIVE Deduplicate(_, _)
Deduplicate(skus, seen) ==
    IF skus = <<>> THEN seen
    ELSE Deduplicate(Tail(skus), MergeSeen(seen, CleanName(skus[1][1]), skus[1][2]))

FinalPassStep(st) ==
    [st EXCEPT !.result = Deduplicate(st.skus, <<>>), !.pc = "done"]

\* the whole function, from a state of it to its return
RECURSIVE RunExtractor(_, _)
RunExtractor(st, names) ==
    IF st.pc = "done" THEN st
    ELSE IF st.pc = "scan" /\ st.i < Len(st.lines) THEN RunExtractor(ScanStep(st, names), names)
    ELSE IF st.pc = "scan" THEN RunExtractor(FinishScanStep(st, names), names)
    ELSE IF st.pc = "backfill" THEN RunExtractor(BackfillStep(st, names), names)
    ELSE RunExtractor(FinalPassStep(st), names)

extract_sku_from_packing_slip(text, names) == RunExtractor(ScanStart(text), names).result

-----------------------------------------------------------------------------
(***************************************************************************)
(* extract_sku_from_page: the coordinate-based extractor.  A Word is a     *)
(* record [text, x0, x1, top, bottom]; coordinates are integers, and a     *)
(* centre (a + b) / 2 is compared through a + b.                            *)
(***************************************************************************)

\* page.extract_text(): the Words in reading order, those of one top on one
\* line with spaces between them
RECURSIVE PlainTextLines(_, _, _, _)
PlainTextLines(ws, done, line, top) ==
    IF ws = <<>> THEN (IF line = "" THEN done ELSE Append(done, line))
    ELSE IF line # "" /\ ws[1].top = top
         THEN PlainTextLines(Tail(ws), done, line \o " " \o ws[1].text, top)
    ELSE PlainTextLines(Tail(ws), IF line = "" THEN done ELSE Append(done, line),
                        ws[1].text, ws[1].top)

PlainText(words) == Join(PlainTextLines(words, <<>>, "", 0), "\n")

\* the index of the first Word whose text is "seller" or "sku"
FindSellerOrSku(words) ==
    IF \E j \in 1..Len(words) : Lower(Strip(words[j].text)) \in {"seller", "sku"}
    THEN CHOOSE j \in 1..Len(words) :
            /\ Lower(Strip(words[j].text)) \in {"seller", "sku"}
            /\ \A h \in 1..(j - 1) : Lower(Strip(words[h].text)) \notin {"seller", "sku"}
    ELSE 0

\* the index of the first Word whose text is "seller"; 0 when there is none
FindSeller(words) ==
    IF \E j \in 1..Len(words) : Lower(Strip(words[j].text)) = "seller"
    THEN CHOOSE j \in 1..Len(words) :
            /\ Lower(Strip(words[j].text)) = "seller"
            /\ \A h \in 1..(j - 1) : Lower(Strip(words[h].text)) # "seller"
    ELSE 0

\* the index of the topmost Word whose text starts with "qty", the first of
\* them when several are topmost; 0 when there is none
RECURSIVE FindQtyHeader(_, _, _)
FindQtyHeader(words, j, best) ==
    IF j > Len(words) THEN best
    ELSE IF ~StartsWith(Lower(Strip(words[j].text)), "qty") THEN FindQtyHeader(words, j + 1, best)
    ELSE IF best = 0 THEN FindQtyHeader(words, j + 1, j)
    ELSE IF words[j].top < words[best].top THEN FindQtyHeader(words, j + 1, j)
    ELSE FindQtyHeader(words, j + 1, best)

\* whether the column boundaries cannot be found and the text is parsed instead
NeedsTextFallback(words) ==
    LET s == FindSeller(words)
        q == FindQtyHeader(words, 1, 0)
    IN  IF s = 0 \/ q = 0 THEN TRUE ELSE words[q].x0 <= words[s].x0

\* QtyTotalTop taking the smallest top
RECURSIVE QtyTotalTopmost(_, _)
QtyTotalTopmost(words, best) ==
    IF words = <<>> THEN best
    ELSE LET txt == Lower(Strip(words[1].text))
         IN  IF /\ Contains(txt, "qty") /\ Contains(txt, "total")
                /\ (best = <<>> \/ words[1].top < best[1])
             THEN QtyTotalTopmost(Tail(words), <<words[1].top>>)
             ELSE QtyTotalTopmost(Tail(words), best)

\* the largest top of the Words with "qty" and "total" in them; <<>> when none
RECURSIVE QtyTotalTop(_, _)
QtyTotalTop(words, best) ==
    IF words = <<>> THEN best
    ELSE LET txt == Lower(Strip(words[1].text))
         IN  IF /\ Contains(txt, "qty") /\ Contains(txt, "total")
                /\ (best = <<>> \/ words[1].top > best[1])
             THEN QtyTotalTop(Tail(words), <<words[1].top>>)
             ELSE QtyTotalTop(Tail(words), best)

\* max(w["bottom"] for w in words)
MaxBottom(words) ==
    CHOOSE b \in { words[j].bottom : j \in 1..Len(words) } :
        \A j \in 1..Len(words) : words[j].bottom <= b

RECURSIVE InsertSorted(_, _, _)
InsertSorted(sorted, w, field) ==
    IF sorted = <<>> THEN <<w>>
    ELSE IF w[field] < sorted[1][field] THEN <<w>> \o sorted
    ELSE <<sorted[1]>> \o InsertSorted(Tail(sorted), w, field)

\* sorted(ws, key=lambda w: w[field]): a stable sort
RECURSIVE SortBy(_, _)
SortBy(ws, field) ==
    IF ws = <<>> THEN <<>>
    ELSE InsertSorted(SortBy(SubSeq(ws, 1, Len(ws) - 1), field), ws[Len(ws)], field)

\* the Words whose vertical centre lies in y_min..y_max
RECURSIVE CandidateWords(_, _, _)
CandidateWords(words, y_min, y_max) ==
    IF words = <<>> THEN <<>>
    ELSE (IF /\ 2 * y_min <= words[1].top + words[1].bottom
             /\ words[1].top + words[1].bottom <= 2 * y_max
          THEN <<words[1]>> ELSE <<>>)
         \o CandidateWords(Tail(words), y_min, y_max)

row_tolerance == 2

\* the Words, sorted by top, clustered into rows
RECURSIVE ClusterRows(_, _, _, _)
ClusterRows(ws, rows, current_row, current_top) ==
    IF ws = <<>> THEN (IF current_row # <<>> THEN Append(rows, current_row) ELSE rows)
    ELSE LET w == ws[1]
             d == IF w.top >= current_top THEN w.top - current_top ELSE current_top - w.top
         IN  IF current_row # <<>> /\ d > row_tolerance
             THEN ClusterRows(Tail(ws), Append(rows, current_row), <<w>>, w.top)
             ELSE IF current_row = <<>>
             THEN ClusterRows(Tail(ws), rows, <<w>>, w.top)
             ELSE ClusterRows(Tail(ws), rows, Append(current_row, w), current_top)

\* the sku_tokens and qty_candidates of the Words of a row, sorted by x0
RECURSIVE RowInfo(_, _, _, _)
RowInfo(ws, sku_x_min, sku_x_max, info) ==
    IF ws = <<>> THEN info
    ELSE LET w   == ws[1]
             txt == Strip(w.text)
             in_sku == 2 * sku_x_min <= w.x0 + w.x1 /\ w.x0 + w.x1 < 2 * sku_x_max
             in_qty == /\ w.x0 + w.x1 >= 2 * sku_x_max
                       /\ IsDigitStr(txt)
                       /\ Len(txt) <= int_max_str_digits
         IN  IF txt = "" \/ Lower(txt) = "qty" THEN RowInfo(Tail(ws), sku_x_min, sku_x_max, info)
             ELSE RowInfo(Tail(ws), sku_x_min, sku_x_max,
                    [sku_tokens |-> info.sku_tokens \o (IF in_sku THEN <<txt>> ELSE <<>>),
                     qty_candidates |-> info.qty_candidates
                                        \o (IF in_qty THEN <<DigitsToInt(txt)>> ELSE <<>>)])

\* rows_info: the rows that have sku_tokens
RECURSIVE RowsInfo(_, _, _)
RowsInfo(rows, sku_x_min, sku_x_max) ==
    IF rows = <<>> THEN <<>>
    ELSE LET info == RowInfo(SortBy(rows[1], "x0"), sku_x_min, sku_x_max,
                             [sku_tokens |-> <<>>, qty_candidates |-> <<>>])
         IN  (IF info.sku_tokens = <<>> THEN <<>> ELSE <<info>>)
             \o RowsInfo(Tail(rows), sku_x_min, sku_x_max)

\* rows_info of a page whose column boundaries were found
PageRowsInfo(words) ==
    LET seller_word     == words[FindSeller(words)]
        qty_header_word == words[FindQtyHeader(words, 1, 0)]
        qty_total_top   == QtyTotalTop(words, <<>>)
        y_min == seller_word.top + 1
        y_max == IF qty_total_top # <<>> THEN qty_total_top[1] - 1 ELSE MaxBottom(words)
        candidate_words == SortBy(CandidateWords(words, y_min, y_max), "top")
    IN  RowsInfo(ClusterRows(candidate_words, <<>>, <<>>, 0),
                 seller_word.x0, qty_header_word.x0)

\* whether a row starts a SKU: "Ink-" in its text, or its first token is the
\* start of a whitelist name
IsStartRow(info, names) ==
    \/ Contains(Join(info.sku_tokens, " "), "Ink-")
    \/ \E n \in 1..Len(names) : StartsWith(names[n], info.sku_tokens[1])

BoundaryPhrases == {"qty total", "order id", "package id", "buyer id", "product name"}

\* the inner loop of the merge: <<the tokens of the group, the index of the
\* row that ends it>>, from row index j (from 0) on
RECURSIVE AbsorbRows(_, _, _)
AbsorbRows(rows_info, j, cur_tokens) ==
    IF j >= Len(rows_info) THEN <<cur_tokens, j>>
    ELSE LET nxt_text == Join(rows_info[j + 1].sku_tokens, " ")
         IN  IF Contains(nxt_text, "Ink-") THEN <<cur_tokens, j>>
             ELSE IF \E ph \in BoundaryPhrases : StartsWith(Lower(nxt_text), ph)
             THEN <<cur_tokens, j>>
             ELSE AbsorbRows(rows_info, j + 1, cur_tokens \o rows_info[j + 1].sku_tokens)

\* one iteration of the outer loop of the merge
MergeStep(st, names) ==
    LET cur == st.rows_info[st.i + 1]
        absorbed == AbsorbRows(st.rows_info, st.i + 1, cur.sku_tokens)
    IN  IF ~IsStartRow(cur, names) THEN [st EXCEPT !.i = @ + 1]
        ELSE [st EXCEPT !.merged_rows = Append(@, [sku_tokens |-> absorbed[1],
                                                   qty_candidates |-> cur.qty_candidates]),
                        !.i = absorbed[2]]

\* the Records of the merged rows: the rows whose normalized name has "Ink-"
\* in it or is a whitelist name, with the last quantity candidate, or 1
RECURSIVE EmitRecords(_, _)
EmitRecords(merged_rows, names) ==
    IF merged_rows = <<>> THEN <<>>
    ELSE LET row == merged_rows[1]
             normalized_sku == _normalize_sku_by_whitelist(Join(row.sku_tokens, " "), names)
             qty_val == IF row.qty_candidates # <<>>
                        THEN row.qty_candidates[Len(row.qty_candidates)] ELSE 1
         IN  (IF ~Contains(normalized_sku, "Ink-") /\ ~InSeq(normalized_sku, names) THEN <<>>
              ELSE << <<normalized_sku, qty_val>> >>)
             \o EmitRecords(Tail(merged_rows), names)

\* the state of a call before its first statement
PageStart(words) ==
    [ words       |-> words,
      pc          |-> "start",      \* start, merge, done
      rows_info   |-> <<>>,
      i           |-> 0,
      merged_rows |-> <<>>,
      result      |-> <<>>,
      via         |-> "" ]          \* which return gave the result

-----------------------------------------------------------------------------
(***************************************************************************)
(* create_sku_table (process_pdf.py:568-838).  Lengths are in thousandths  *)
(* of a point, so that a text width (a font size times glyph widths in     *)
(* thousandths of an em) and a share of the page width are integers.  A    *)
(* quantity of the displayed list is <<n>>, and <<>> in the sentinel,      *)
(* whose quantity is the empty string.                                     *)
(***************************************************************************)

TABLE_ROWS == 3

base_font_size == 9
max_font_size == 11
min_font_size == 6

\* skus[:6]
display_cap == 6

\* the glyphs of the built-in Helvetica ("helv") that SKU names are written
\* with, grouped by their advance in 1/1000 em
HelvGlyphs ==
    { <<"0123456789abdeghnopquL_", 556>>,
      <<"cksvxyzJ", 500>>,
      <<"ijl", 222>>,
      <<" ft.I", 278>>,
      <<"r-()", 333>>,
      <<"ABEKPSVXY", 667>>,
      <<"CDHNRUw", 722>>,
      <<"FTZ", 611>>,
      <<"GOQ", 778>>,
      <<"Mm", 833>>,
      <<"W", 944>>,
      <<"+", 584>> }

CharsOf(s) == { Sub(s, j, j) : j \in 1..Len(s) }

GlyphWidths ==
    [ch \in UNION { CharsOf(g[1]) : g \in HelvGlyphs } |->
        (CHOOSE g \in HelvGlyphs : ch \in CharsOf(g[1]))[2]]

GlyphWidth(ch) == GlyphWidths[ch]

\* fitz.get_text_length(text, fontname="helv", fontsize=fontsize)
RECURSIVE get_text_length(_, _)
get_text_length(text, fontsize) ==
    IF text = "" THEN 0
    ELSE fontsize * GlyphWidth(Char(text, 1))
         + get_text_length(Sub(text, 2, Len(text)), fontsize)

\* name[4:] if name.startswith("Ink-") else name
DisplayName(name) ==
    IF StartsWith(name, "Ink-") THEN Sub(name, 5, Len(name)) ELSE name

\* table_width * 0.4 and table_width * 0.1, table_width being 0.8 page widths
col_width_sku(page_width) == 320 * page_width
col_width_qty(page_width) == 80 * page_width

\* the width a name has in one cell, and in the three cells of a merged row
CellAvailable(page_width) == col_width_sku(page_width) - 6000
MergedAvailable(page_width) ==
    col_width_sku(page_width) * 2 + col_width_qty(page_width) - 6000

_will_overflow_single_cell(name, page_width) ==
    get_text_length(DisplayName(name), min_font_size) > CellAvailable(page_width)

\* the largest size from test_size down to min_font_size at which the text
\* fits available_width, and base_font_size when it fits at none
RECURSIVE FitFontSize(_, _, _)
FitFontSize(display_name, available_width, test_size) ==
    IF test_size < min_font_size THEN base_font_size
    ELSE IF get_text_length(display_name, test_size) <= available_width THEN test_size
    ELSE FitFontSize(display_name, available_width, test_size - 1)

\* the number of leading characters that fit available_width at min_font_size
RECURSIVE MaxChars(_, _, _, _)
MaxChars(display_name, available_width, test_width, max_chars) ==
    IF max_chars >= Len(display_name) THEN max_chars
    ELSE LET ch_width == get_text_length(Char(display_name, max_chars + 1), min_font_size)
         IN  IF test_width + ch_width <= available_width
             THEN MaxChars(display_name, available_width, test_width + ch_width, max_chars + 1)
             ELSE max_chars

\* display_name[:max_chars-3] + "..." if max_chars > 3 else display_name[:max_chars]
Truncate(display_name, max_chars) ==
    IF max_chars >= Len(display_name) THEN display_name
    ELSE IF max_chars > 3 THEN Sub(display_name, 1, max_chars - 3) \o "..."
    ELSE Sub(display_name, 1, max_chars)

\* the text drawn for a name and its font size
FittedText(name, available_width) ==
    LET display_name      == DisplayName(name)
        optimal_font_size == FitFontSize(display_name, available_width, max_font_size)
    IN  [ text     |-> IF optimal_font_size = min_font_size
                       THEN Truncate(display_name,
                                     MaxChars(display_name, available_width, 0, 0))
                       ELSE display_name,
          fontsize |-> optimal_font_size ]

\* str(n)
RECURSIVE Str(_)
Str(n) ==
    IF n < 0 THEN "-" \o Str(0 - n)
    ELSE IF n < 10 THEN Char(DigitChars, n + 1)
    ELSE Str(n \div 10) \o Char(DigitChars, (n % 10) + 1)

\* a quantity that is neither 0 nor the empty string
Truthy(qty) == qty # <<>> /\ qty # <<0>>

\* one drawing call: the outer rectangle, a horizontal line under row `row',
\* the segment of interior vertical line `col' in row `row', or a text
Draw(kind, row, col, text, fontsize) ==
    [kind |-> kind, row |-> row, col |-> col, text |-> text, fontsize |-> fontsize]

\* display_skus of skus: its first six Records and the sentinel after them
DisplaySkus(skus) ==
    [j \in 1..(IF Len(skus) < display_cap THEN Len(skus) ELSE display_cap) |->
        <<skus[j][1], <<skus[j][2]>> >>]
    \o (IF Len(skus) > display_cap THEN << <<"Check More", <<>> >> >> ELSE <<>>)

\* the state of a call before its first statement
TableStart(skus, page_width) ==
    [ skus           |-> skus,
      page_width     |-> page_width,
      pc             |-> "start",    \* start, layout, draw, done, raised
      display_skus   |-> <<>>,
      long_flags     |-> <<>>,
      i              |-> 0,
      rows_layout    |-> <<>>,
      row_types      |-> <<>>,
      full_row_types |-> <<>>,
      row_idx        |-> 0,
      draws          |-> <<>>,       \* the drawing calls that succeeded
      fail_at        |-> 0,          \* the number of the drawing call that raises, 0: none
      failed         |-> <<>> ]      \* the drawing call that raised

\* the displayed list, the outer rectangle and the long flags
TableBegin(st) ==
    LET display_skus == DisplaySkus(st.skus)
    IN  [st EXCEPT !.pc = "layout",
                   !.display_skus = display_skus,
                   !.draws = << Draw("rect", 0, 0, "", 0) >>,
                   !.long_flags =
                       [j \in 1..Len(display_skus) |->
                           _will_overflow_single_cell(display_skus[j][1], st.page_width)]]

\* an iteration of the layout loop at a long Record
LayoutMergedRow(st) ==
    [st EXCEPT !.rows_layout = Append(@, << st.display_skus[st.i + 1] >>),
               !.row_types = Append(@, "merged"),
               !.i = @ + 1]

\* LayoutNormalRow pairing the Record with the next one, long or short
LayoutNormalRowAnyPair(st) ==
    LET pair == st.i + 1 < Len(st.display_skus)
    IN  [st EXCEPT !.rows_layout =
                       Append(@, IF pair THEN << st.display_skus[st.i + 1],
                                                 st.display_skus[st.i + 2] >>
                                 ELSE << st.display_skus[st.i + 1] >>),
                   !.row_types = Append(@, "normal"),
                   !.i = IF pair THEN @ + 2 ELSE @ + 1]

\* an iteration of the layout loop at a short Record
LayoutNormalRow(st) ==
    LET pair == st.i + 1 < Len(st.display_skus) /\ ~st.long_flags[st.i + 2]
    IN  [st EXCEPT !.rows_layout =
                       Append(@, IF pair THEN << st.display_skus[st.i + 1],
                                                 st.display_skus[st.i + 2] >>
                                 ELSE << st.display_skus[st.i + 1] >>),
                   !.row_types = Append(@, "normal"),
                   !.i = IF pair THEN @ + 2 ELSE @ + 1]

\* row_types padded with "normal" to TABLE_ROWS rows
FullRowTypes(row_types) ==
    [idx \in 1..TABLE_ROWS |->
        IF idx <= Len(row_types) THEN row_types[idx] ELSE "normal"]

HorizontalLines == [j \in 1..(TABLE_ROWS - 1) |-> Draw("hline", j, 0, "", 0)]

\* the segments of the interior vertical lines from row row_idx on
RECURSIVE VerticalLines(_, _)
VerticalLines(full_row_types, row_idx) ==
    IF row_idx >= TABLE_ROWS THEN <<>>
    ELSE (IF full_row_types[row_idx + 1] = "merged" THEN <<>>
          ELSE << Draw("vline", row_idx, 1, "", 0), Draw("vline", row_idx, 2, "", 0) >>)
         \o << Draw("vline", row_idx, 3, "", 0) >>
         \o VerticalLines(full_row_types, row_idx + 1)

\* the grid lines are drawn
GridLines(st) ==
    LET full_row_types == FullRowTypes(st.row_types)
    IN  [st EXCEPT !.pc = "draw",
                   !.full_row_types = full_row_types,
                   !.draws = @ \o HorizontalLines \o VerticalLines(full_row_types, 0)]

\* the texts of one cell pair: the name when it is not empty, the quantity
\* when it is truthy
CellDraws(rec, row_idx, col_idx, available_width) ==
    (IF rec[1] = "" THEN <<>>
     ELSE LET fitted == FittedText(rec[1], available_width)
          IN  << Draw("name", row_idx, col_idx, fitted.text, fitted.fontsize) >>)
    \o (IF ~Truthy(rec[2]) THEN <<>>
        ELSE << Draw("qty", row_idx, col_idx, Str(rec[2][1]), base_font_size) >>)

\* the texts of a merged row
DrawMerged(st) ==
    [st EXCEPT !.draws = @ \o CellDraws(st.rows_layout[st.row_idx + 1][1], st.row_idx, 0,
                                        MergedAvailable(st.page_width)),
               !.row_idx = @ + 1]

\* the texts of the cell pairs of a normal row from col_idx on
RECURSIVE NormalRowDraws(_, _, _, _)
NormalRowDraws(row, row_idx, col_idx, page_width) ==
    IF col_idx >= Len(row) THEN <<>>
    ELSE CellDraws(row[col_idx + 1], row_idx, col_idx, CellAvailable(page_width))
         \o NormalRowDraws(row, row_idx, col_idx + 1, page_width)

\* the texts of a normal row
DrawNormal(st) ==
    [st EXCEPT !.draws = @ \o NormalRowDraws(st.rows_layout[st.row_idx + 1], st.row_idx, 0,
                                             st.page_width),
               !.row_idx = @ + 1]

\* insert_text is called inside try/except (lines 757-766, 772-777, 807-816
\* and 824-832); draw_rect and draw_line are not (lines 614, 682-687, 697-718)
Guarded(draw) == draw.kind \in {"name", "qty"}

\* the step from st to next when drawing call number st.fail_at raises: the
\* calls of the step are those next.draws has after st.draws.  A text that
\* raises is skipped and the step goes on; a rectangle or a line that raises
\* ends the function with the exception (its locals are then of no account)
Attempt(st, next) ==
    LET calls == SubSeq(next.draws, Len(st.draws) + 1, Len(next.draws))
        k     == st.fail_at - (Len(st.draws) + Len(st.failed))
    IN  IF k < 1 \/ k > Len(calls) THEN next
        ELSE IF Guarded(calls[k])
        THEN [next EXCEPT !.draws = st.draws \o SubSeq(calls, 1, k - 1)
                                             \o SubSeq(calls, k + 1, Len(calls)),
                          !.failed = << calls[k] >>]
        ELSE [next EXCEPT !.draws = st.draws \o SubSeq(calls, 1, k - 1),
                          !.failed = << calls[k] >>,
                          !.pc = "raised"]

-----------------------------------------------------------------------------
(***************************************************************************)
(* process_pdf (process_pdf.py:841-890).  A page of the input is given by  *)
(* the Records extract_sku_from_page returns for it; create_sku_table is   *)
(* one step, which leaves its table on the page of the document.           *)
(***************************************************************************)

\* create_sku_table from a state of it to its return, or to the drawing call
\* that raises out of it
RECURSIVE RunTable(_)
RunTable(st) ==
    IF st.pc \in {"done", "raised"} THEN st
    ELSE IF st.pc = "start" THEN RunTable(Attempt(st, TableBegin(st)))
    ELSE IF st.pc = "layout"
    THEN IF st.i < Len(st.display_skus) /\ Len(st.rows_layout) < TABLE_ROWS
         THEN IF st.long_flags[st.i + 1] THEN RunTable(LayoutMergedRow(st))
              ELSE RunTable(LayoutNormalRow(st))
         ELSE RunTable(Attempt(st, GridLines(st)))
    ELSE IF st.row_idx >= Len(st.rows_layout) THEN [st EXCEPT !.pc = "done"]
    ELSE IF st.row_types[st.row_idx + 1] = "merged" THEN RunTable(Attempt(st, DrawMerged(st)))
    ELSE RunTable(Attempt(st, DrawNormal(st)))

\* the whole call on a page of the given width; drawing call fail_at raises
\* (0: none does)
create_sku_table(skus, page_width, fail_at) ==
    RunTable([TableStart(skus, page_width) EXCEPT !.fail_at = fail_at])

\* the state of a call before its first loop
PdfStart(pages) ==
    [ pages             |-> pages,
      pc                |-> "extract",   \* extract, tables, copy, done, raised
      page_width        |-> 0,           \* the width of the pages of doc
      fail              |-> <<>>,        \* <<page, n>>: drawing call n on the page raises
      page_num          |-> 0,
      packing_slip_data |-> <<>>,        \* the dict, as its items in insertion order
      t                 |-> 0,           \* the items the second loop has taken
      tables            |-> <<>>,        \* the tables drawn: <<page, skus>>
      output_doc        |-> <<>>,        \* the pages inserted, by their number in doc
      saved             |-> <<>> ]       \* <<output_doc>> once saved

-----------------------------------------------------------------------------
(***************************************************************************)
(* The whitelist helpers applied to bounded inputs.                        *)
(***************************************************************************)

\* the longest raw identifier, in tokens
MaxRawTokens == 3

RawTokens ==
    {"Ink-A", "Ink-AB", "Ink-P-abcd", "53", "DEF7", "ink-p-abc53", "a1b2c"}

NormWhitelists ==
    { <<>>,
      <<"Ink-A", "Ink-AB", "Ink-P-(abcd53+Def7)">>,
      <<"Ink-P-(abcd53+Def7)", "Ink-P-(abcd53+Xyz9)", "Ink-(x">>,
      <<"Ink-A DEF7", "(a1b+2c)", "Ink-AB">> }

RawInputs ==
    { Join(ts, " ") : ts \in UNION { [1..n -> RawTokens] : n \in 0..MaxRawTokens } }

NrmIdle == [sku_raw |-> "", norm_out |-> <<>>, match_out |-> <<>>]

InitNorm ==
    /\ SKU_NAME_LIST \in NormWhitelists
    /\ \E raw \in RawInputs : nrm = [NrmIdle EXCEPT !.sku_raw = raw]
    /\ ext = ScanStart("")
    /\ pg = PageStart(<<>>)
    /\ tbl = TableStart(<<>>, 0)
    /\ pdf = PdfStart(<<>>)

\* a call _normalize_sku_by_whitelist(sku_raw)
Normalize ==
    /\ nrm.norm_out = <<>>
    /\ nrm' = [nrm EXCEPT !.norm_out =
                  <<_normalize_sku_by_whitelist(nrm.sku_raw, SKU_NAME_LIST)>>]
    /\ UNCHANGED <<SKU_NAME_LIST, ext, pg, tbl, pdf>>

\* a call _match_complex_candidate(sku_raw, name) for a name of the whitelist
MatchComplex ==
    /\ nrm.match_out = <<>>
    /\ \E k \in 1..Len(SKU_NAME_LIST) :
          nrm' = [nrm EXCEPT !.match_out =
                    <<SKU_NAME_LIST[k],
                      _match_complex_candidate(nrm.sku_raw, SKU_NAME_LIST[k])>>]
    /\ UNCHANGED <<SKU_NAME_LIST, ext, pg, tbl, pdf>>

NextNorm == Normalize \/ MatchComplex

SpecNorm == InitNorm /\ [][NextNorm]_vars

-----------------------------------------------------------------------------
(***************************************************************************)
(* The text-based extractor on bounded texts, one loop iteration a step.   *)
(***************************************************************************)

\* the longest text, in lines
MaxLines == 3

TextLines ==
    { "", "Seller SKU Qty", "Ink-A1 2", "Ink-B2", "Ink-A1 -3", "blue 4",
      "Qty Total 6", "Ink-C  D 5", "Ink-C D 1" }

TextWhitelists ==
    { <<>>,
      <<"Ink-A1", "Ink-B2", "Ink-(A1+B2)">>,
      <<"Ink-C  D", "Ink-C D">> }

TextInputs ==
    { Join(ls, "\n") : ls \in UNION { [1..n -> TextLines] : n \in 0..MaxLines } }

InitText ==
    /\ SKU_NAME_LIST \in TextWhitelists
    /\ \E text \in TextInputs : ext = ScanStart(text)
    /\ nrm = NrmIdle
    /\ pg = PageStart(<<>>)
    /\ tbl = TableStart(<<>>, 0)
    /\ pdf = PdfStart(<<>>)

Scanning(kind) ==
    /\ ext.pc = "scan"
    /\ ext.i < Len(ext.lines)
    /\ LineKind(ext, SKU_NAME_LIST) = kind

ScanBlank ==
    /\ Scanning("blank")
    /\ ext' = BlankLineStep(ext)
    /\ UNCHANGED <<SKU_NAME_LIST, nrm, pg, tbl, pdf>>

ScanHeader ==
    /\ Scanning("header")
    /\ ext' = HeaderLineStep(ext)
    /\ UNCHANGED <<SKU_NAME_LIST, nrm, pg, tbl, pdf>>

ScanBeforeHeader ==
    /\ Scanning("before_header")
    /\ ext' = [MarkQtyTotal(ext) EXCEPT !.i = @ + 1]
    /\ UNCHANGED <<SKU_NAME_LIST, nrm, pg, tbl, pdf>>

ScanWhitelist ==
    /\ Scanning("whitelist")
    /\ ext' = WhitelistLineStep(MarkQtyTotal(ext), SKU_NAME_LIST)
    /\ UNCHANGED <<SKU_NAME_LIST, nrm, pg, tbl, pdf>>

ScanMarker ==
    /\ Scanning("marker")
    /\ ext' = MarkerLineStep(MarkQtyTotal(ext))
    /\ UNCHANGED <<SKU_NAME_LIST, nrm, pg, tbl, pdf>>

ScanPlain ==
    /\ Scanning("plain")
    /\ ext' = PlainLineStep(MarkQtyTotal(ext))
    /\ UNCHANGED <<SKU_NAME_LIST, nrm, pg, tbl, pdf>>

FinishScan ==
    /\ ext.pc = "scan"
    /\ ext.i = Len(ext.lines)
    /\ ext' = FinishScanStep(ext, SKU_NAME_LIST)
    /\ UNCHANGED <<SKU_NAME_LIST, nrm, pg, tbl, pdf>>

Backfill ==
    /\ ext.pc = "backfill"
    /\ ext' = BackfillStep(ext, SKU_NAME_LIST)
    /\ UNCHANGED <<SKU_NAME_LIST, nrm, pg, tbl, pdf>>

FinalPass ==
    /\ ext.pc = "final"
    /\ ext' = FinalPassStep(ext)
    /\ UNCHANGED <<SKU_NAME_LIST, nrm, pg, tbl, pdf>>

NextText ==
    \/ ScanBlank \/ ScanHeader \/ ScanBeforeHeader \/ ScanWhitelist
    \/ ScanMarker \/ ScanPlain \/ FinishScan \/ Backfill \/ FinalPass

SpecText == InitText /\ [][NextText]_vars

\* texts for the line heuristics: marker lines with and without a quantity,
\* lines that may continue a name, lines with integers
HeuristicLines ==
    { "", "Seller SKU Qty", "Ink-A1 2", "Ink-B2", "ab for", "pack",
      "ab sticker", "4 blue 7", "blue 4" }

HeuristicWhitelists == { <<>>, <<"Ink-B2">> }

InitLines ==
    /\ SKU_NAME_LIST \in HeuristicWhitelists
    /\ \E ls \in UNION { [1..n -> HeuristicLines] : n \in 0..MaxLines } :
          ext = ScanStart(Join(ls, "\n"))
    /\ nrm = NrmIdle
    /\ pg = PageStart(<<>>)
    /\ tbl = TableStart(<<>>, 0)
    /\ pdf = PdfStart(<<>>)

SpecLines == InitLines /\ [][NextText]_vars

\* texts for the backfill: a composite whitelist name whose pieces are in the
\* text, next to Records that start with its prefix and Records that do not
BackfillLines ==
    { "", "Seller SKU Qty", "Ink-A1 2", "Ink-pk-A1 B2 3", "Ink-pk-", "Qty Total 6" }

BackfillWhitelists ==
    { <<>>, <<"Ink-A1", "Ink-pk-(A1+B2)">>, <<"Ink-pk-(A1+B2)", "Ink-A1">> }

InitBackfill ==
    /\ SKU_NAME_LIST \in BackfillWhitelists
    /\ \E ls \in UNION { [1..n -> BackfillLines] : n \in 0..MaxLines } :
          ext = ScanStart(Join(ls, "\n"))
    /\ nrm = NrmIdle
    /\ pg = PageStart(<<>>)
    /\ tbl = TableStart(<<>>, 0)
    /\ pdf = PdfStart(<<>>)

SpecBackfill == InitBackfill /\ [][NextText]_vars

-----------------------------------------------------------------------------
(***************************************************************************)
(* The coordinate-based extractor on bounded pages.  A page is a list of   *)
(* printed rows, 10 points apart and 8 points high, each a list of         *)
(* <<text, x0, x1>>.                                                        *)
(***************************************************************************)

\* the most rows of a page
MaxPageRows == 3

PageRows ==
    { << <<"Seller", 10, 40>>, <<"SKU", 50, 70>>, <<"Qty", 100, 115>> >>,
      << <<"SKU", 10, 40>>, <<"Qty", 100, 115>> >>,
      << <<"Ink-A1", 10, 40>>, <<"2", 100, 105>> >>,
      << <<"Ink-A1", 10, 40>>, <<"3", 100, 105>> >>,
      << <<"Ink-B2", 10, 40>> >>,
      << <<"blue", 10, 30>>, <<"4", 100, 105>> >>,
      << <<"Qty", 10, 25>>, <<"Total", 30, 55>>, <<"6", 100, 105>> >> }

PageWhitelists ==
    { <<>>, <<"Ink-A1", "Ink-B2", "Ink-(A1+B2)">> }

\* page.extract_words() of a page of printed rows
RECURSIVE WordsOfRows(_, _)
WordsOfRows(rows, r) ==
    IF r > Len(rows) THEN <<>>
    ELSE [j \in 1..Len(rows[r]) |->
            [text   |-> rows[r][j][1],
             x0     |-> rows[r][j][2],
             x1     |-> rows[r][j][3],
             top    |-> 10 * (r - 1),
             bottom |-> 10 * (r - 1) + 8]]
         \o WordsOfRows(rows, r + 1)

PageInputs ==
    { WordsOfRows(rows, 1) : rows \in UNION { [1..n -> PageRows] : n \in 0..MaxPageRows } }

InitPage ==
    /\ SKU_NAME_LIST \in PageWhitelists
    /\ \E words \in PageInputs : pg = PageStart(words)
    /\ nrm = NrmIdle
    /\ ext = ScanStart("")
    /\ tbl = TableStart(<<>>, 0)
    /\ pdf = PdfStart(<<>>)

\* if not words: return []
PageEmpty ==
    /\ pg.pc = "start"
    /\ pg.words = <<>>
    /\ pg' = [pg EXCEPT !.pc = "done", !.via = "empty"]
    /\ UNCHANGED <<SKU_NAME_LIST, nrm, ext, tbl, pdf>>

\* no column boundaries: the text of the page is parsed
PageAnchorFallback ==
    /\ pg.pc = "start"
    /\ pg.words # <<>>
    /\ NeedsTextFallback(pg.words)
    /\ pg' = [pg EXCEPT !.pc = "done", !.via = "text",
                        !.result = extract_sku_from_packing_slip(PlainText(pg.words),
                                                                 SKU_NAME_LIST)]
    /\ UNCHANGED <<SKU_NAME_LIST, nrm, ext, tbl, pdf>>

\* the column boundaries, the rows and their tokens
PageRowsFound ==
    /\ pg.pc = "start"
    /\ pg.words # <<>>
    /\ ~NeedsTextFallback(pg.words)
    /\ pg' = [pg EXCEPT !.pc = "merge", !.rows_info = PageRowsInfo(pg.words)]
    /\ UNCHANGED <<SKU_NAME_LIST, nrm, ext, tbl, pdf>>

\* one iteration of the merge loop
PageMerge ==
    /\ pg.pc = "merge"
    /\ pg.i < Len(pg.rows_info)
    /\ pg' = MergeStep(pg, SKU_NAME_LIST)
    /\ UNCHANGED <<SKU_NAME_LIST, nrm, ext, tbl, pdf>>

\* the Records of the merged rows are returned
PageReturn ==
    /\ pg.pc = "merge"
    /\ pg.i >= Len(pg.rows_info)
    /\ EmitRecords(pg.merged_rows, SKU_NAME_LIST) # <<>>
    /\ pg' = [pg EXCEPT !.pc = "done", !.via = "coordinates",
                        !.result = EmitRecords(pg.merged_rows, SKU_NAME_LIST)]
    /\ UNCHANGED <<SKU_NAME_LIST, nrm, ext, tbl, pdf>>

\* no Record: the text of the page is parsed
PageEmptyFallback ==
    /\ pg.pc = "merge"
    /\ pg.i >= Len(pg.rows_info)
    /\ EmitRecords(pg.merged_rows, SKU_NAME_LIST) = <<>>
    /\ pg' = [pg EXCEPT !.pc = "done", !.via = "text",
                        !.result = extract_sku_from_packing_slip(PlainText(pg.words),
                                                                 SKU_NAME_LIST)]
    /\ UNCHANGED <<SKU_NAME_LIST, nrm, ext, tbl, pdf>>

NextPage ==
    \/ PageEmpty \/ PageAnchorFallback \/ PageRowsFound
    \/ PageMerge \/ PageReturn \/ PageEmptyFallback

SpecPage == InitPage /\ [][NextPage]_vars

-----------------------------------------------------------------------------
(***************************************************************************)
(* extract_sku_from_page applied to pages with continuation rows, start    *)
(* rows of whitelist names without the marker and "QtyTotal" Words.        *)
(***************************************************************************)

\* the most rows of such a page
MaxMergeRows == 4

MergeRows ==
    { << <<"Seller", 10, 40>>, <<"SKU", 50, 70>>, <<"Qty", 100, 115>> >>,
      << <<"Ink-A1", 10, 40>>, <<"2", 100, 105>> >>,
      << <<"Pen-B2", 10, 40>>, <<"3", 100, 105>> >>,
      << <<"blue", 10, 30>>, <<"4", 100, 105>> >>,
      << <<"QtyTotal", 10, 40>>, <<"6", 100, 105>> >> }

MergeWhitelists ==
    { <<>>, <<"Ink-A1", "Pen-B2">> }

InitRows ==
    /\ SKU_NAME_LIST \in MergeWhitelists
    /\ \E rows \in UNION { [1..n -> MergeRows] : n \in 0..MaxMergeRows } :
          pg = PageStart(WordsOfRows(rows, 1))
    /\ nrm = NrmIdle
    /\ ext = ScanStart("")
    /\ tbl = TableStart(<<>>, 0)
    /\ pdf = PdfStart(<<>>)

SpecRows == InitRows /\ [][NextPage]_vars

-----------------------------------------------------------------------------
(***************************************************************************)
(* create_sku_table applied to bounded Record lists.                       *)
(***************************************************************************)

\* the most Records of a list
MaxSkus == 7

\* a short name, a name too wide for one cell of the narrow page and a name
\* too wide for the three cells of a merged row of the narrow page
TableRecords ==
    { <<"Ink-A1", 2>>,
      <<"Ink-pack-Y2K-53", 1>>,
      <<"Ink-pack-Y2K-(beige53+pink53)", 3>> }

\* page.rect.width, in points
PageWidths == {100, 130}

TableInputs == UNION { [1..n -> TableRecords] : n \in 0..MaxSkus }

InitTable ==
    /\ SKU_NAME_LIST = <<>>
    /\ \E skus \in TableInputs, page_width \in PageWidths :
          tbl = TableStart(skus, page_width)
    /\ nrm = NrmIdle
    /\ ext = ScanStart("")
    /\ pg = PageStart(<<>>)
    /\ pdf = PdfStart(<<>>)

\* lines 574-629
TableSetUp ==
    /\ tbl.pc = "start"
    /\ tbl' = Attempt(tbl, TableBegin(tbl))
    /\ UNCHANGED <<SKU_NAME_LIST, nrm, ext, pg, pdf>>

LayoutLoopRuns ==
    /\ tbl.pc = "layout"
    /\ tbl.i < Len(tbl.display_skus)
    /\ Len(tbl.rows_layout) < TABLE_ROWS

\* lines 641-647
LayoutMerged ==
    /\ LayoutLoopRuns
    /\ tbl.long_flags[tbl.i + 1]
    /\ tbl' = LayoutMergedRow(tbl)
    /\ UNCHANGED <<SKU_NAME_LIST, nrm, ext, pg, pdf>>

\* lines 641-656
LayoutNormal ==
    /\ LayoutLoopRuns
    /\ ~tbl.long_flags[tbl.i + 1]
    /\ tbl' = LayoutNormalRow(tbl)
    /\ UNCHANGED <<SKU_NAME_LIST, nrm, ext, pg, pdf>>

\* lines 658-718
DrawGrid ==
    /\ tbl.pc = "layout"
    /\ ~LayoutLoopRuns
    /\ tbl' = Attempt(tbl, GridLines(tbl))
    /\ UNCHANGED <<SKU_NAME_LIST, nrm, ext, pg, pdf>>

\* lines 721-777
DrawMergedRow ==
    /\ tbl.pc = "draw"
    /\ tbl.row_idx < Len(tbl.rows_layout)
    /\ tbl.row_types[tbl.row_idx + 1] = "merged"
    /\ tbl' = Attempt(tbl, DrawMerged(tbl))
    /\ UNCHANGED <<SKU_NAME_LIST, nrm, ext, pg, pdf>>

\* lines 721-722 and 778-838
DrawNormalRow ==
    /\ tbl.pc = "draw"
    /\ tbl.row_idx < Len(tbl.rows_layout)
    /\ tbl.row_types[tbl.row_idx + 1] # "merged"
    /\ tbl' = Attempt(tbl, DrawNormal(tbl))
    /\ UNCHANGED <<SKU_NAME_LIST, nrm, ext, pg, pdf>>

\* the function returns after the last row
TableReturn ==
    /\ tbl.pc = "draw"
    /\ tbl.row_idx >= Len(tbl.rows_layout)
    /\ tbl' = [tbl EXCEPT !.pc = "done"]
    /\ UNCHANGED <<SKU_NAME_LIST, nrm, ext, pg, pdf>>

NextTable ==
    \/ TableSetUp \/ LayoutMerged \/ LayoutNormal \/ DrawGrid
    \/ DrawMergedRow \/ DrawNormalRow \/ TableReturn

SpecTable == InitTable /\ [][NextTable]_vars

-----------------------------------------------------------------------------
(***************************************************************************)
(* create_sku_table on a page one of whose drawing calls raises.           *)
(***************************************************************************)

\* the most Records of a list drawn with a failing call
MaxDrawSkus == 3

\* the most drawing calls of a table: the rectangle, the horizontal lines,
\* three vertical segments and four texts a row
MaxCalls == 1 + (TABLE_ROWS - 1) + 3 * TABLE_ROWS + 4 * TABLE_ROWS

DrawInputs == UNION { [1..n -> TableRecords] : n \in 0..MaxDrawSkus }

InitDraw ==
    /\ SKU_NAME_LIST = <<>>
    /\ \E skus \in DrawInputs, page_width \in PageWidths, fail_at \in 0..MaxCalls :
          tbl = [TableStart(skus, page_width) EXCEPT !.fail_at = fail_at]
    /\ nrm = NrmIdle
    /\ ext = ScanStart("")
    /\ pg = PageStart(<<>>)
    /\ pdf = PdfStart(<<>>)

SpecDraw == InitDraw /\ [][NextTable]_vars

-----------------------------------------------------------------------------
(***************************************************************************)
(* process_pdf applied to bounded documents.                               *)
(***************************************************************************)

\* the most pages of an input document
MaxPages == 4

\* the drawing calls that may raise: the rectangle, a line and the first text
FailingCalls == {1, 3, 13}

\* what extract_sku_from_page returns for a page
PageResults ==
    { <<>>, << <<"Ink-A1", 2>> >>, << <<"Ink-A1", 2>>, <<"Ink-B2", 1>> >> }

InitPdf ==
    /\ SKU_NAME_LIST = <<>>
    /\ \E pages \in UNION { [1..n -> PageResults] : n \in 0..MaxPages },
          page_width \in PageWidths,
          fail \in {<<>>} \cup { <<p, n>> : p \in {0, 2}, n \in FailingCalls } :
          pdf = [PdfStart(pages) EXCEPT !.page_width = page_width, !.fail = fail]
    /\ nrm = NrmIdle
    /\ ext = ScanStart("")
    /\ pg = PageStart(<<>>)
    /\ tbl = TableStart(<<>>, 0)

\* lines 855-864: a packing slip with Records is kept for the label before it
PdfExtract ==
    /\ pdf.pc = "extract"
    /\ pdf.page_num < Len(pdf.pages)
    /\ pdf.page_num % 2 = 1
    /\ pdf.pages[pdf.page_num + 1] # <<>>
    /\ pdf' = [pdf EXCEPT !.packing_slip_data =
                              Append(@, <<pdf.page_num - 1, pdf.pages[pdf.page_num + 1]>>),
                          !.page_num = @ + 1]
    /\ UNCHANGED <<SKU_NAME_LIST, nrm, ext, pg, tbl>>

\* lines 855-861: a label, or a packing slip without Records
PdfSkip ==
    /\ pdf.pc = "extract"
    /\ pdf.page_num < Len(pdf.pages)
    /\ IF pdf.page_num % 2 = 1 THEN pdf.pages[pdf.page_num + 1] = <<>> ELSE TRUE
    /\ pdf' = [pdf EXCEPT !.page_num = @ + 1]
    /\ UNCHANGED <<SKU_NAME_LIST, nrm, ext, pg, tbl>>

\* line 855: the pages are exhausted
PdfExtracted ==
    /\ pdf.pc = "extract"
    /\ pdf.page_num >= Len(pdf.pages)
    /\ pdf' = [pdf EXCEPT !.pc = "tables"]
    /\ UNCHANGED <<SKU_NAME_LIST, nrm, ext, pg, tbl>>

\* the call create_sku_table(doc, shipping_label_page, skus) of item t + 1
TableOfItem(st) ==
    LET item == st.packing_slip_data[st.t + 1]
    IN  create_sku_table(item[2], st.page_width,
                         IF st.fail # <<>> /\ st.fail[1] = item[1] THEN st.fail[2] ELSE 0)

\* lines 869-871: create_sku_table(doc, shipping_label_page, skus) returns
PdfDrawTable ==
    /\ pdf.pc = "tables"
    /\ pdf.t < Len(pdf.packing_slip_data)
    /\ TableOfItem(pdf).pc = "done"
    /\ pdf' = [pdf EXCEPT !.tables = Append(@, pdf.packing_slip_data[pdf.t + 1]),
                          !.t = @ + 1]
    /\ UNCHANGED <<SKU_NAME_LIST, nrm, ext, pg, tbl>>

\* lines 869-871: a drawing call raises out of create_sku_table, and out of
\* process_pdf, which catches nothing: no later table, no output document
PdfDrawTableRaises ==
    /\ pdf.pc = "tables"
    /\ pdf.t < Len(pdf.packing_slip_data)
    /\ TableOfItem(pdf).pc = "raised"
    /\ pdf' = [pdf EXCEPT !.pc = "raised"]
    /\ UNCHANGED <<SKU_NAME_LIST, nrm, ext, pg, tbl>>

\* lines 869-874: the items are exhausted, output_doc is created
PdfTablesDrawn ==
    /\ pdf.pc = "tables"
    /\ pdf.t >= Len(pdf.packing_slip_data)
    /\ pdf' = [pdf EXCEPT !.pc = "copy", !.page_num = 0]
    /\ UNCHANGED <<SKU_NAME_LIST, nrm, ext, pg, tbl>>

\* lines 877-882: a page of even number is inserted
PdfCopy ==
    /\ pdf.pc = "copy"
    /\ pdf.page_num < Len(pdf.pages)
    /\ pdf.page_num % 2 = 0
    /\ pdf' = [pdf EXCEPT !.output_doc = Append(@, pdf.page_num), !.page_num = @ + 1]
    /\ UNCHANGED <<SKU_NAME_LIST, nrm, ext, pg, tbl>>

\* PdfCopySkip inserting the page instead
PdfCopyAnyPage ==
    /\ pdf.pc = "copy"
    /\ pdf.page_num < Len(pdf.pages)
    /\ pdf.page_num % 2 = 1
    /\ pdf' = [pdf EXCEPT !.output_doc = Append(@, pdf.page_num), !.page_num = @ + 1]
    /\ UNCHANGED <<SKU_NAME_LIST, nrm, ext, pg, tbl>>

\* lines 877-879: a page of odd number is left out
PdfCopySkip ==
    /\ pdf.pc = "copy"
    /\ pdf.page_num < Len(pdf.pages)
    /\ pdf.page_num % 2 = 1
    /\ pdf' = [pdf EXCEPT !.page_num = @ + 1]
    /\ UNCHANGED <<SKU_NAME_LIST, nrm, ext, pg, tbl>>

\* lines 877 and 885: the pages are exhausted, output_doc.save(output_path)
PdfSave ==
    /\ pdf.pc = "copy"
    /\ pdf.page_num >= Len(pdf.pages)
    /\ pdf' = [pdf EXCEPT !.pc = "done", !.saved = << pdf.output_doc >>]
    /\ UNCHANGED <<SKU_NAME_LIST, nrm, ext, pg, tbl>>

NextPdf ==
    \/ PdfExtract \/ PdfSkip \/ PdfExtracted \/ PdfDrawTable \/ PdfDrawTableRaises
    \/ PdfTablesDrawn
    \/ PdfCopy \/ PdfCopySkip \/ PdfSave

SpecPdf == InitPdf /\ [][NextPdf]_vars

-----------------------------------------------------------------------------
(***************************************************************************)
(* Claims about the whitelist helpers (under SpecNorm).                    *)
(***************************************************************************)

\* candidate has the form prefix(part1+part2+...)
Bracketed(candidate) == Contains(candidate, "(") /\ EndsWith(candidate, ")")
PrefixOf(candidate) == SplitOnce(candidate, "(")[1]
PartsOf(candidate) ==
    LET inner == SplitOnce(candidate, "(")[2]
    IN  NonEmpty(SplitOn(Sub(inner, 1, Len(inner) - 1), "+"))

\* the alphabetic run a part starts with
RECURSIVE LeadingAlphaRun(_)
LeadingAlphaRun(part) ==
    IF part = "" \/ ~IsAlphaChar(Char(part, 1)) THEN ""
    ELSE Char(part, 1) \o LeadingAlphaRun(Sub(part, 2, Len(part)))

\* the maximal runs of digits of a part
NumericRuns(part) ==
    { Sub(part, a, b) : <<a, b>> \in
        { ab \in (1..Len(part)) \X (1..Len(part)) :
            /\ ab[1] <= ab[2]
            /\ \A i \in ab[1]..ab[2] : IsDigitChar(Char(part, i))
            /\ ~IsDigitChar(Char(part, ab[1] - 1))
            /\ ~IsDigitChar(Char(part, ab[2] + 1)) } }

\* what every part of an accepted candidate leaves in raw
PartsOccur(raw, candidate) ==
    \A p \in 1..Len(PartsOf(candidate)) :
        LET part == PartsOf(candidate)[p]
        IN  /\ Contains(Lower(raw), Lower(Sub(LeadingAlphaRun(part), 1, 3)))
            /\ \A run \in NumericRuns(part) : Contains(raw, run)

\* the whitelist entries that are candidates for raw, over both tiers
SurvivingCandidates(raw) ==
    { SKU_NAME_LIST[k] : k \in
        { j \in 1..Len(SKU_NAME_LIST) :
            \/ Contains(raw, SKU_NAME_LIST[j])
            \/ Contains(SKU_NAME_LIST[j], raw)
            \/ _match_complex_candidate(raw, SKU_NAME_LIST[j]) } }

\* C4: _normalize_sku_by_whitelist returns raw for an empty whitelist and for
\* a raw that is a whitelist entry; otherwise the one candidate that survives
\* the substring and composite tiers together, and raw when none or several do.
C4_NormalizeResolution ==
    nrm.norm_out # <<>> =>
        LET raw == nrm.sku_raw
            out == nrm.norm_out[1]
            cs  == SurvivingCandidates(raw)
        IN  IF SKU_NAME_LIST = <<>> \/ InSeq(raw, SKU_NAME_LIST) THEN out = raw
            ELSE IF Cardinality(cs) = 1 THEN cs = {out}
            ELSE out = raw

\* a raw that is no whitelist entry is replaced by its only candidate
C4_Witness ==
    /\ nrm.norm_out # <<>>
    /\ ~InSeq(nrm.sku_raw, SKU_NAME_LIST)
    /\ Cardinality(SurvivingCandidates(nrm.sku_raw)) = 1
    /\ nrm.norm_out[1] # nrm.sku_raw
    /\ _match_complex_candidate(nrm.sku_raw, nrm.norm_out[1])

\* C5 as stated: an accepted candidate is bracketed, its prefix occurs in raw,
\* and of every part the first 3 characters of the leading alphabetic run
\* (case-insensitively) and every numeric run occur in raw.
C5_AsStated ==
    (nrm.match_out # <<>> /\ nrm.match_out[2]) =>
        /\ Bracketed(nrm.match_out[1])
        /\ Contains(nrm.sku_raw, PrefixOf(nrm.match_out[1]))
        /\ PartsOccur(nrm.sku_raw, nrm.match_out[1])

\* C5 amended: as C5, the prefix too being compared case-insensitively.
C5_MatchOnlyIf ==
    (nrm.match_out # <<>> /\ nrm.match_out[2]) =>
        /\ Bracketed(nrm.match_out[1])
        /\ Contains(Lower(nrm.sku_raw), Lower(PrefixOf(nrm.match_out[1])))
        /\ PartsOccur(nrm.sku_raw, nrm.match_out[1])

\* a composite of two parts is accepted for a raw that is not the entry itself
C5_Witness ==
    /\ nrm.match_out # <<>>
    /\ nrm.match_out[2]
    /\ Len(PartsOf(nrm.match_out[1])) = 2
    /\ PrefixOf(nrm.match_out[1]) # ""
    /\ ~Contains(nrm.sku_raw, nrm.match_out[1])

-----------------------------------------------------------------------------
(***************************************************************************)
(* Claims about the text-based extractor (under SpecText).                 *)
(***************************************************************************)

\* the sum of the quantities of the Records of skus whose cleaned name is name
RECURSIVE QuantityOf(_, _)
QuantityOf(skus, name) ==
    IF skus = <<>> THEN 0
    ELSE (IF CleanName(skus[1][1]) = name THEN skus[1][2] ELSE 0)
         + QuantityOf(Tail(skus), name)

\* C1: the returned list has one Record for each whitespace-normalized name
\* collected before the final pass and no two Records for one name, and the
\* quantity of a Record is the sum of the quantities collected for its name.
C1_FinalPassSums ==
    ext.pc = "done" =>
        /\ \A a, b \in 1..Len(ext.result) :
              CleanName(ext.result[a][1]) = CleanName(ext.result[b][1]) => a = b
        /\ \A j \in 1..Len(ext.skus) :
              \E a \in 1..Len(ext.result) : ext.result[a][1] = CleanName(ext.skus[j][1])
        /\ \A a \in 1..Len(ext.result) :
              /\ \E j \in 1..Len(ext.skus) : CleanName(ext.skus[j][1]) = ext.result[a][1]
              /\ ext.result[a][2] = QuantityOf(ext.skus, ext.result[a][1])

\* two Records whose names differ in whitespace only were collected and summed
C1_Witness ==
    /\ ext.pc = "done"
    /\ \E j, h \in 1..Len(ext.skus) :
          /\ ext.skus[j][1] # ext.skus[h][1]
          /\ CleanName(ext.skus[j][1]) = CleanName(ext.skus[h][1])
          /\ \E a \in 1..Len(ext.result) :
                /\ ext.result[a][1] = CleanName(ext.skus[j][1])
                /\ ext.result[a][2] = ext.skus[j][2] + ext.skus[h][2]

\* the lines of the text that the scan takes while collecting: those after a
\* header line that are not header lines themselves
CollectedLines(lines) ==
    { Strip(lines[j]) : j \in
        { h \in 1..Len(lines) :
            /\ ~IsHeaderLine(Strip(lines[h]))
            /\ \E g \in 1..(h - 1) : IsHeaderLine(Strip(lines[g])) } }

\* C3: a whitelist entry E that occurs in the text (here: in a line taken
\* while collecting, E holding no run of whitespace) has a Record of its own
\* in the output, which no other whitelist entry replaces or removes.
C3_WhitelistExactness ==
    ext.pc = "done" =>
        \A e \in 1..Len(SKU_NAME_LIST) :
            LET entry == SKU_NAME_LIST[e]
            IN  (/\ CleanName(entry) = entry
                 /\ \E line \in CollectedLines(ext.lines) : Contains(line, entry))
                => \E a \in 1..Len(ext.result) : ext.result[a][1] = entry

\* C10: every Record the extractor returns has a quantity of 0 or more.
C10_QuantityNonNegative ==
    ext.pc = "done" => \A a \in 1..Len(ext.result) : ext.result[a][2] >= 0


-----------------------------------------------------------------------------
(***************************************************************************)
(* Claims about the coordinate-based extractor (under SpecPage).           *)
(***************************************************************************)

\* C2: the list extract_sku_from_page returns has no two Records for one
\* normalized identifier: an identifier recovered from several row groups
\* has one Record, with the sum of the quantities of its occurrences.
C2_PageDeduplicated ==
    pg.pc = "done" =>
        \A a, b \in 1..Len(pg.result) :
            CleanName(pg.result[a][1]) = CleanName(pg.result[b][1]) => a = b

\* no Word of the page is "seller", whatever its case
NoSellerWord(words) ==
    \A j \in 1..Len(words) : Lower(words[j].text) # "seller"

\* C6: for a page none of whose Words is "seller" (case-insensitively),
\* extract_sku_from_page returns what extract_sku_from_packing_slip returns
\* for the plain text of the page.
C6_SellerlessFallsBackToText ==
    (pg.pc = "done" /\ NoSellerWord(pg.words)) =>
        pg.result = extract_sku_from_packing_slip(PlainText(pg.words), SKU_NAME_LIST)

\* a page with a "Qty" header and no "seller" gave the Records of its text
C6_Witness ==
    /\ pg.pc = "done"
    /\ pg.via = "text"
    /\ pg.words # <<>>
    /\ NoSellerWord(pg.words)
    /\ FindQtyHeader(pg.words, 1, 0) # 0
    /\ pg.result # <<>>

-----------------------------------------------------------------------------
(***************************************************************************)
(* Claims about create_sku_table (under SpecTable).                        *)
(***************************************************************************)

\* the entries of the rows, in row order
RECURSIVE LaidOut(_)
LaidOut(rows_layout) ==
    IF rows_layout = <<>> THEN <<>>
    ELSE rows_layout[1] \o LaidOut(Tail(rows_layout))

\* C7: given more than 6 Records, the entries laid out in the grid cells are
\* the first 6 Records and, as the 7th entry, the sentinel "Check More".
C7_SentinelLaidOut ==
    (tbl.pc = "done" /\ Len(tbl.skus) > display_cap) =>
        /\ Len(LaidOut(tbl.rows_layout)) = display_cap + 1
        /\ \A j \in 1..display_cap :
              LaidOut(tbl.rows_layout)[j] = <<tbl.skus[j][1], <<tbl.skus[j][2]>> >>
        /\ LaidOut(tbl.rows_layout)[display_cap + 1][1] = "Check More"

\* the width a drawn name has to fit: that of the cells of its row
AvailableIn(st, row) ==
    IF st.row_types[row + 1] = "merged" THEN MergedAvailable(st.page_width)
    ELSE CellAvailable(st.page_width)

\* C8: a name that is drawn and whose display text is wider than the cells
\* of its row at the minimum font size is drawn truncated: as a strict prefix
\* of the display text followed by "...", no wider than the cells at the
\* font size it is drawn with.
C8_TooWideIsTruncated ==
    tbl.pc = "done" =>
        \A d \in 1..Len(tbl.draws) :
            LET draw      == tbl.draws[d]
                display   == DisplayName(tbl.rows_layout[draw.row + 1][draw.col + 1][1])
                available == AvailableIn(tbl, draw.row)
            IN  (/\ draw.kind = "name"
                 /\ get_text_length(display, min_font_size) > available)
                => /\ \E k \in 0..(Len(display) - 1) :
                          draw.text = Sub(display, 1, k) \o "..."
                   /\ get_text_length(draw.text, draw.fontsize) <= available

\* the number of entries of the rows before row r
RECURSIVE EntriesBefore(_, _)
EntriesBefore(rows_layout, r) ==
    IF r <= 1 THEN 0
    ELSE Len(rows_layout[r - 1]) + EntriesBefore(rows_layout, r - 1)

\* segment `col' of the interior vertical lines is drawn in row `row'
SeparatorDrawn(st, row, col) ==
    \E d \in 1..Len(st.draws) :
        st.draws[d].kind = "vline" /\ st.draws[d].row = row /\ st.draws[d].col = col

\* C9: every displayed Record whose name is wider than one cell at the
\* minimum font size has a merged row of its own, and the first two interior
\* vertical lines are left out in the merged rows and in no other row.
C9_LongIsMergedRow ==
    tbl.pc = "done" =>
        /\ \A j \in 1..Len(tbl.display_skus) :
              _will_overflow_single_cell(tbl.display_skus[j][1], tbl.page_width)
              => \E r \in 1..Len(tbl.rows_layout) :
                    /\ EntriesBefore(tbl.rows_layout, r) = j - 1
                    /\ tbl.rows_layout[r] = << tbl.display_skus[j] >>
                    /\ tbl.row_types[r] = "merged"
        /\ \A row \in 0..(TABLE_ROWS - 1) :
              LET merged == row < Len(tbl.rows_layout) /\ tbl.row_types[row + 1] = "merged"
              IN  /\ merged => ~SeparatorDrawn(tbl, row, 1) /\ ~SeparatorDrawn(tbl, row, 2)
                  /\ ~merged => SeparatorDrawn(tbl, row, 1) /\ SeparatorDrawn(tbl, row, 2)

-----------------------------------------------------------------------------
(***************************************************************************)
(* Claims about create_sku_table with a failing drawing call (SpecDraw).   *)
(***************************************************************************)

\* the texts of the rows from row row_idx on
RECURSIVE RowCalls(_, _)
RowCalls(st, row_idx) ==
    IF row_idx >= Len(st.rows_layout) THEN <<>>
    ELSE (IF st.row_types[row_idx + 1] = "merged"
          THEN CellDraws(st.rows_layout[row_idx + 1][1], row_idx, 0,
                         MergedAvailable(st.page_width))
          ELSE NormalRowDraws(st.rows_layout[row_idx + 1], row_idx, 0, st.page_width))
         \o RowCalls(st, row_idx + 1)

\* the drawing calls of the table of st, in the order they are made
AllCalls(st) ==
    << Draw("rect", 0, 0, "", 0) >> \o HorizontalLines
    \o VerticalLines(FullRowTypes(st.row_types), 0) \o RowCalls(st, 0)

\* C11: a drawing call that raises (the rectangle, a line or a text) does
\* not end create_sku_table with the exception: the function returns, and
\* every other drawing call of the table has been made.
C11_DrawFailureCaught ==
    /\ tbl.pc # "raised"
    /\ tbl.pc = "done" =>
          IF tbl.failed = <<>> THEN tbl.draws = AllCalls(tbl)
          ELSE \E k \in 1..Len(AllCalls(tbl)) :
                  /\ AllCalls(tbl)[k] = tbl.failed[1]
                  /\ tbl.draws = SubSeq(AllCalls(tbl), 1, k - 1)
                                 \o SubSeq(AllCalls(tbl), k + 1, Len(AllCalls(tbl)))

-----------------------------------------------------------------------------
(***************************************************************************)
(* Claims about process_pdf (under SpecPdf).                               *)
(***************************************************************************)

\* page j of the input is a label whose packing slip, the page after it,
\* gives Records
LabelWithRecords(pages, j) ==
    /\ j % 2 = 0
    /\ j + 1 < Len(pages)
    /\ pages[j + 2] # <<>>

\* C12: the document process_pdf saves holds the pages of even number of the
\* input, in their order, and no other page, and nothing is saved before the
\* end; a table is drawn only on a label whose packing slip (the next page)
\* gives a Record list that is not empty, once, and with those Records, and at
\* the end every such label has its table.  (A run that a drawing call raises
\* out of saves no document.)
C12_LabelsOnlyWithTheirTables ==
    /\ \A a, b \in 1..Len(pdf.tables) :
          /\ LabelWithRecords(pdf.pages, pdf.tables[a][1])
          /\ pdf.tables[a][2] = pdf.pages[pdf.tables[a][1] + 2]
          /\ pdf.tables[a][1] = pdf.tables[b][1] => a = b
    /\ pdf.pc # "done" => pdf.saved = <<>>
    /\ pdf.pc = "done" =>
          /\ pdf.saved = << [k \in 1..((Len(pdf.pages) + 1) \div 2) |-> 2 * (k - 1)] >>
          /\ \A j \in 0..(Len(pdf.pages) - 1) :
                LabelWithRecords(pdf.pages, j)
                => \E a \in 1..Len(pdf.tables) : pdf.tables[a][1] = j

\* a document of two pairs was saved, one packing slip giving Records and
\* the other none
C12_Witness ==
    /\ pdf.pc = "done"
    /\ Len(pdf.pages) = 4
    /\ pdf.pages[2] = <<>>
    /\ pdf.pages[4] # <<>>
    /\ pdf.tables = << <<2, pdf.pages[4]>> >>
    /\ pdf.saved = << <<0, 2>> >>

-----------------------------------------------------------------------------
(***************************************************************************)
(* Claims about the row merge and the scan range of the coordinate-based   *)
(* extractor (under SpecRows).                                             *)
(***************************************************************************)

\* the row index after the last row of the group that starts at row i
GroupEnd(rows_info, i) == AbsorbRows(rows_info, i + 1, <<>>)[2]

\* C13: the group the merge forms from a start row absorbs no row that is a
\* start row itself ("Ink-" in its text, or its first token the start of a
\* whitelist name).
C13_StartRowsNotAbsorbed ==
    (/\ pg.pc = "merge"
     /\ pg.i < Len(pg.rows_info)
     /\ IsStartRow(pg.rows_info[pg.i + 1], SKU_NAME_LIST))
    => \A r \in (pg.i + 2)..GroupEnd(pg.rows_info, pg.i) :
          ~IsStartRow(pg.rows_info[r], SKU_NAME_LIST)

\* the quantity candidates of rows a..b (from 1), in row order
RECURSIVE GroupCandidates(_, _, _)
GroupCandidates(rows_info, a, b) ==
    IF a > b THEN <<>>
    ELSE rows_info[a].qty_candidates \o GroupCandidates(rows_info, a + 1, b)

\* C14: when the merge closes a group, the Record emitted for the group has
\* the last quantity candidate of the rows of the group, the start row and
\* the rows absorbed after it, and 1 when those rows have no candidate.
C14_GroupQuantity ==
    [][ (pg.pc = "merge" /\ Len(pg'.merged_rows) > Len(pg.merged_rows)) =>
          LET cands   == GroupCandidates(pg.rows_info, pg.i + 1, pg'.i)
              group   == pg'.merged_rows[Len(pg'.merged_rows)]
              emitted == EmitRecords(<<group>>, SKU_NAME_LIST)
          IN  \A e \in 1..Len(emitted) :
                 emitted[e][2] = IF cands # <<>> THEN cands[Len(cands)] ELSE 1 ]_vars

\* the tops of the Words with "qty" and "total" in them
QtyTotalTops(words) ==
    { words[j].top : j \in { h \in 1..Len(words) :
        /\ Contains(Lower(Strip(words[h].text)), "qty")
        /\ Contains(Lower(Strip(words[h].text)), "total") } }

Smallest(S) == CHOOSE a \in S : \A b \in S : a <= b
Largest(S) == CHOOSE a \in S : \A b \in S : a >= b

\* the Words that give a token of the SKU column when their row is scanned:
\* those with a text other than "qty" whose horizontal centre is in the
\* column, and whose vertical centre is in lo..hi
ScannedWords(words, lo, hi) ==
    LET seller_x0 == words[FindSeller(words)].x0
        qty_x0    == words[FindQtyHeader(words, 1, 0)].x0
    IN  { j \in 1..Len(words) :
            /\ Strip(words[j].text) # ""
            /\ Lower(Strip(words[j].text)) # "qty"
            /\ 2 * seller_x0 <= words[j].x0 + words[j].x1
            /\ words[j].x0 + words[j].x1 < 2 * qty_x0
            /\ 2 * lo <= words[j].top + words[j].bottom
            /\ words[j].top + words[j].bottom <= 2 * hi }

\* the tokens of all rows
RECURSIVE TokensOf(_)
TokensOf(rows_info) ==
    IF rows_info = <<>> THEN <<>>
    ELSE rows_info[1].sku_tokens \o TokensOf(Tail(rows_info))

\* rows_info has the tokens of the Words scanned in lo..hi, each as often
RowsAreOf(words, rows_info, lo, hi) ==
    LET tokens == TokensOf(rows_info)
    IN  \A j \in 1..Len(words) :
            Cardinality({ h \in 1..Len(tokens) : tokens[h] = Strip(words[j].text) })
            = Cardinality({ h \in ScannedWords(words, lo, hi) :
                              Strip(words[h].text) = Strip(words[j].text) })

\* C18 as stated: the range scanned for rows ends just above the topmost
\* Word with "qty" and "total" in it, and at the largest bottom of the page
\* when there is no such Word.
C18_AsStated ==
    pg.pc = "merge" =>
        RowsAreOf(pg.words, pg.rows_info, pg.words[FindSeller(pg.words)].top + 1,
                  IF QtyTotalTops(pg.words) # {}
                  THEN Smallest(QtyTotalTops(pg.words)) - 1
                  ELSE MaxBottom(pg.words))

\* C18, amended: the range scanned for rows ends just above the lowest Word
\* with "qty" and "total" in it (the one of the largest top), and at the
\* largest bottom of the page when there is no such Word.
C18_EndsAboveLowestQtyTotal ==
    pg.pc = "merge" =>
        RowsAreOf(pg.words, pg.rows_info, pg.words[FindSeller(pg.words)].top + 1,
                  IF QtyTotalTops(pg.words) # {}
                  THEN Largest(QtyTotalTops(pg.words)) - 1
                  ELSE MaxBottom(pg.words))

\* a page with two such Words and a SKU row between them, which is scanned
C18_Witness ==
    /\ pg.pc = "merge"
    /\ Cardinality(QtyTotalTops(pg.words)) = 2
    /\ \E j \in 1..Len(pg.words) :
          /\ pg.words[j].text = "Ink-A1"
          /\ pg.words[j].top > Smallest(QtyTotalTops(pg.words))
          /\ pg.words[j].top < Largest(QtyTotalTops(pg.words))
    /\ \E r \in 1..Len(pg.rows_info) : pg.rows_info[r].sku_tokens = <<"Ink-A1">>

-----------------------------------------------------------------------------
(***************************************************************************)
(* Claims about the line heuristics of the text-based extractor (under     *)
(* SpecLines).                                                             *)
(***************************************************************************)

\* the parts of the name on a marker line that has a quantity
MarkerSkuParts(line) ==
    LET parts == Split(line)
        sku_start_idx == FirstMarkerPart(parts)
    IN  SubSeq(parts, sku_start_idx, FirstIntFrom(parts, sku_start_idx) - 1)

\* the parts of the line after the current one; none at the last line
NextParts(st) ==
    IF st.i + 1 < Len(st.lines) THEN Split(Strip(st.lines[st.i + 2])) ELSE <<>>

\* the continuation as stated: from the line end backward, a part with a
\* description keyword ends the scan with nothing, and the first part of 2 to
\* 5 alphanumeric characters met before any such part is the continuation
RECURSIVE StatedContinuation(_, _)
StatedContinuation(next_parts, j) ==
    IF j = 0 THEN <<>>
    ELSE LET part == next_parts[j]
         IN  IF AnyKeyword(part, DescriptionKeywords) THEN <<>>
             ELSE IF /\ 2 <= Len(part)
                     /\ Len(part) <= 5
                     /\ IsAlnumStr(RemoveChar(RemoveChar(part, "-"), "_"))
             THEN <<part>>
             ELSE StatedContinuation(next_parts, j - 1)

\* C15: the Record a marker line with a quantity yields is named by the parts
\* of the line and the continuation found in the next line: the first part of
\* 2 to 5 alphanumeric characters from the line end, nothing once a part with
\* a description keyword is met, and never a part with such a keyword.
C15_ContinuationStopsAtKeyword ==
    [][ (Scanning("marker") /\ Len(ext'.skus) > Len(ext.skus)) =>
          LET next_parts == NextParts(ext)
          IN  ext'.skus[Len(ext'.skus)][1] =
                 AssembleName(MarkerSkuParts(CurrentLine(ext))
                              \o StatedContinuation(next_parts, Len(next_parts))) ]_vars

-----------------------------------------------------------------------------
(***************************************************************************)
(* Claims about the whitelist backfill of the text-based extractor (under  *)
(* SpecText).                                                              *)
(***************************************************************************)

\* the index (from 1) of the first header line of the lines; 0 when none
FirstHeaderLine(lines) ==
    IF \E j \in 1..Len(lines) : IsHeaderLine(Strip(lines[j]))
    THEN CHOOSE j \in 1..Len(lines) :
            /\ IsHeaderLine(Strip(lines[j]))
            /\ \A h \in 1..(j - 1) : ~IsHeaderLine(Strip(lines[h]))
    ELSE 0

\* the index (from 1) of the first line after line a with "QTY TOTAL" in it;
\* the index after the last line when there is none
QtyTotalLineAfter(lines, a) ==
    LET marked == { j \in (a + 1)..Len(lines) : Contains(Upper(Strip(lines[j])), "QTY TOTAL") }
    IN  IF marked = {} THEN Len(lines) + 1
        ELSE CHOOSE j \in marked : \A h \in marked : j <= h

\* the region as stated: the non-blank lines strictly between the first
\* header line and the "QTY TOTAL" line after it, joined by spaces
StatedRegionText(lines) ==
    LET a == FirstHeaderLine(lines)
    IN  Join(StrippedNonEmpty(SubSeq(lines, a + 1, QtyTotalLineAfter(lines, a) - 1)), " ")

\* C16: once the extractor has returned, every whitelist entry that occurs in
\* the text of the lines between the first header line and the "QTY TOTAL"
\* line (the end of the text when there is none) has a Record in the output,
\* and its quantity is 1 when the line scan had extracted no Record for it.
C16_RegionEntriesInOutput ==
    (ext.pc = "done" /\ FirstHeaderLine(ext.lines) # 0) =>
        \A e \in 1..Len(SKU_NAME_LIST) :
            LET entry == SKU_NAME_LIST[e]
            IN  Contains(StatedRegionText(ext.lines), entry) =>
                  /\ \E a \in 1..Len(ext.result) : ext.result[a][1] = CleanName(entry)
                  /\ entry \notin ext.existing_names =>
                        \E a \in 1..Len(ext.result) : ext.result[a] = <<CleanName(entry), 1>>

\* the prefix and the parts of a composite name prefix(part+part+...)
CompositePrefix(entry) == SplitOnce(entry, "(")[1]
CompositeParts(entry) ==
    LET rest == SplitOnce(entry, "(")[2]
    IN  NonEmpty(SplitOn(Sub(rest, 1, Len(rest) - 1), "+"))

\* a composite match of the entry: the entry is prefix(part+...) with a prefix,
\* it has no Record yet and is not in the region text as a whole, and the
\* prefix and every part are in the region text
CompositeMatch(entry, st) ==
    /\ Contains(entry, "(") /\ EndsWith(entry, ")")
    /\ CompositePrefix(entry) # ""
    /\ entry \notin st.existing_names
    /\ ~Contains(st.region_text, entry)
    /\ Contains(st.region_text, CompositePrefix(entry))
    /\ \A p \in 1..Len(CompositeParts(entry)) :
          Contains(st.region_text, CompositeParts(entry)[p])

\* C17: the backfill step of a composite match adds the entry (with quantity
\* 1), removes every Record extracted so far whose name starts with the prefix
\* and is not the entry, and leaves the other Records as they were, in order.
C17_CompositeReplacesPrefixed ==
    [][ (ext.pc = "backfill" /\ CompositeMatch(SKU_NAME_LIST[ext.k], ext)) =>
          LET entry == SKU_NAME_LIST[ext.k]
              Kept(record) == ~(StartsWith(record[1], CompositePrefix(entry))
                                /\ record[1] # entry)
          IN  ext'.skus = Append(SelectSeq(ext.skus, Kept), <<entry, 1>>) ]_vars

\* a composite match has replaced the Record ("Ink-pk-A1-B2", 3) and kept
\* the Record ("Ink-A1", 2), whose name does not start with the prefix
C17_Witness ==
    /\ ext.pc = "done"
    /\ "Ink-pk-A1-B2" \in ext.existing_names
    /\ "Ink-A1" \in ext.existing_names
    /\ \E a \in 1..Len(ext.skus) : ext.skus[a] = <<"Ink-pk-(A1+B2)", 1>>
    /\ \E a \in 1..Len(ext.skus) : ext.skus[a] = <<"Ink-A1", 2>>
    /\ \A a \in 1..Len(ext.skus) : ext.skus[a][1] # "Ink-pk-A1-B2"

-----------------------------------------------------------------------------
(***************************************************************************)
(* Claims about the pending name and the header of the text-based          *)
(* extractor (under SpecLines).                                            *)
(***************************************************************************)

\* the parts of a marker line from its first "Ink-" part on
PartsFromMarker(line) ==
    LET parts == Split(line)
    IN  SubSeq(parts, FirstMarkerPart(parts), Len(parts))

\* the last part of a line
LastPart(line) == Split(line)[Len(Split(line))]

\* C19: a marker line with no integer among its name parts yields no Record
\* and leaves those parts pending; a line without the marker whose last part is
\* an integer, met while parts are pending, yields exactly one Record, of the
\* pending parts with that integer as quantity, and clears the pending parts;
\* a line without the marker yields no Record when no parts are pending.
C19_PendingCompletedByTrailingInteger ==
    [][ /\ (/\ Scanning("marker")
            /\ FirstIntFrom(PartsFromMarker(CurrentLine(ext)), 1) = 0)
           => /\ ext'.current_sku_parts = PartsFromMarker(CurrentLine(ext))
              /\ ext'.skus = ext.skus
        /\ (/\ Scanning("plain")
            /\ ext.current_sku_parts # <<>>
            /\ IsPyInt(LastPart(CurrentLine(ext))))
           => /\ ext'.skus = Append(ext.skus, << Join(ext.current_sku_parts, " "),
                                                 PyInt(LastPart(CurrentLine(ext))) >>)
              /\ ext'.current_sku_parts = <<>>
        /\ (Scanning("plain") /\ ext.current_sku_parts = <<>>)
           => ext'.skus = ext.skus ]_vars

\* C20: the scan is collecting (found_header) exactly when a header line is
\* among the lines it has taken, so it starts seeking the header, starts to
\* collect at the first header line and never goes back; while it seeks the
\* header no Record is appended and no part is pending; and a text with no
\* header line yields an empty result, whatever the whitelist.
C20_OneWayHeaderGate ==
    /\ [](/\ ext.found_header = (\E j \in 1..ext.i : IsHeaderLine(Strip(ext.lines[j])))
          /\ ~ext.found_header => (ext.skus = <<>> /\ ext.current_sku_parts = <<>>)
          /\ (ext.pc = "done" /\ FirstHeaderLine(ext.lines) = 0) => ext.result = <<>>)
    /\ [][ext.found_header => ext'.found_header]_vars

\* a text with no header line and a line that holds a whitelist name has
\* been taken up to the end, with an empty result
C20_Witness ==
    /\ ext.pc = "done"
    /\ SKU_NAME_LIST = <<"Ink-B2">>
    /\ FirstHeaderLine(ext.lines) = 0
    /\ \E j \in 1..Len(ext.lines) : Contains(ext.lines[j], "Ink-B2")
    /\ \E j \in 1..Len(ext.lines) : Contains(ext.lines[j], "Ink-A1 2")
    /\ ext.result = <<>>

-----------------------------------------------------------------------------
(***************************************************************************)
(* Claims about the layout loop of create_sku_table (under SpecTable).     *)
(***************************************************************************)

\* the Records of the rows, in row order
RECURSIVE RowsConcat(_)
RowsConcat(rows_layout) ==
    IF rows_layout = <<>> THEN <<>>
    ELSE rows_layout[1] \o RowsConcat(Tail(rows_layout))

\* the number of Records in the rows before row r
RowOffset(rows_layout, r) == Len(RowsConcat(SubSeq(rows_layout, 1, r - 1)))

\* C21: at every step of the layout loop and after it, the rows are at most
\* TABLE_ROWS; their Records, in order, are the first i entries of the
\* displayed list; a merged row holds one entry, flagged long; a normal row
\* holds one or two entries, none flagged long; and the loop has stopped only
\* with the displayed list exhausted or TABLE_ROWS rows laid out.
C21_LayoutRows ==
    tbl.pc # "start" =>
        /\ Len(tbl.rows_layout) <= TABLE_ROWS
        /\ Len(tbl.row_types) = Len(tbl.rows_layout)
        /\ tbl.i <= Len(tbl.display_skus)
        /\ RowsConcat(tbl.rows_layout) = SubSeq(tbl.display_skus, 1, tbl.i)
        /\ \A r \in 1..Len(tbl.rows_layout) :
              LET n     == Len(tbl.rows_layout[r])
                  first == RowOffset(tbl.rows_layout, r)
              IN  /\ tbl.row_types[r] \in {"merged", "normal"}
                  /\ tbl.row_types[r] = "merged" =>
                        (n = 1 /\ tbl.long_flags[first + 1])
                  /\ tbl.row_types[r] = "normal" =>
                        (n \in {1, 2} /\ \A c \in 1..n : ~tbl.long_flags[first + c])
        /\ tbl.pc # "layout" =>
              (tbl.i = Len(tbl.display_skus) \/ Len(tbl.rows_layout) = TABLE_ROWS)

\* the loop has stopped at three rows, a merged row and a row of two short
\* Records among them, with entries of the displayed list left over
C21_Witness ==
    /\ tbl.pc = "draw"
    /\ Len(tbl.rows_layout) = TABLE_ROWS
    /\ tbl.i < Len(tbl.display_skus)
    /\ \E r \in 1..Len(tbl.row_types) : tbl.row_types[r] = "merged"
    /\ \E r \in 1..Len(tbl.rows_layout) :
          tbl.row_types[r] = "normal" /\ Len(tbl.rows_layout[r]) = 2
    /\ \E r \in 1..Len(tbl.rows_layout) :
          tbl.row_types[r] = "normal" /\ Len(tbl.rows_layout[r]) = 1

=============================================================================
